---- MODULE Spec2Model ----
(***************************************************************************)
(* Model of the quantum news ingestion and summarization pipeline:         *)
(*   news_agent/enhanced_rss_parser.py  QuantumRSSParser (the store, the   *)
(*                                      feed fetcher, the extractor)       *)
(*   news_agent/enhanced_agent.py       QuantumNewsAgent (ingestion and    *)
(*                                      backlog passes)                    *)
(*   news_agent/daily_runner.py         DailyNewsProcessor and main (the   *)
(*                                      daily run, its report, exit code)  *)
(*   news_agent/scheduler.py            the scheduler and its subprocess   *)
(* A run is a caller of the agent.  Every step of a run is one call of a   *)
(* store method or of a collaborator, so that runs working on the same     *)
(* database file interleave between two such calls.                        *)
(***************************************************************************)
EXTENDS Integers, Sequences, FiniteSets, TLC

\* ------------------------------------------------------------------ bounds
MaxOps == 3
MaxOverlapOps == 2
MaxFeed == 2
MaxOld == 3
\* the longest runs of response events, the shortest texts and the distance of
\* the longest texts from max_content_length that the adapter calls are made with
MaxEvents == 3
MaxShort == 2
MaxAround == 3
\* the most rows without summary the database holds when the scheduler starts
\* firing for ever
MaxLiveOld == 2
\* the largest limit get_all_articles is called with, besides its default
MaxLimit == 2
\* the rows in the table when the query surface is put to use
MaxQueryOld == 3

\* the scheduled run, and a manual run that may be started during it
Runs == {"scheduled", "manual"}
Links == {"L1", "L2"}

\* links of articles of earlier days, which the feed no longer lists
OldLinks == <<"K1", "K2", "K3", "K4">>

\* ------------------------------------------------------------- values
None == "<None>"
Raised == "<raised>"

\* Python truthiness of an optional string: `if summary:`
Truthy_none(x) == x # ""

Truthy_empty(x) == x # None

Truthy(x) == x # None /\ x # ""

\* outcomes a store call can have: the connection and the statement succeed,
\* sqlite3.connect raises, or cursor.execute / commit raises
StoreOutcomes(faults) == IF faults THEN {"ok", "connect_error", "exec_error"} ELSE {"ok"}

\* what newspaper yields for a page: a failure, or one of the pages of the
\* specification ("no_text": a page without body text, "text": one with)
ExtractOutcomes(pgs) == {"fail"} \cup pgs

VARIABLES
    store,          \* table quantum_news_rss: sequence of rows, row i has id i
    feed,           \* the feed document: [bozo, entries (newest first)]
    pc,             \* position of each run
    op,             \* entry point each run was called through
    entryLink,      \* article_link of fetch_latest_article
    articleData,    \* article_data of fetch_latest_article
    newArticle,     \* new_article of process_new_articles (its id, 0 if none)
    summary,        \* summary of the summarization in progress
    response,       \* events the runner yields to the summarization in progress
    articles,       \* articles of process_existing_articles_without_summary
    idx,            \* position of the for loop in articles
    processedCount, \* processed_count
    ingestResult,   \* what process_new_articles returned
    backlogResult,  \* what process_existing_articles_without_summary returned
    trace,          \* calls made by the current pass of each run
    rowsAtStart,    \* row count when the current pass of each run started
    feedSeen,       \* feed document the current ingestion pass parsed
    inserted,       \* ids inserted by the current ingestion pass
    pendingAtScan,  \* ids of the rows that had no summary when the pass scanned
    alone,          \* no other run was active during the current call
    lastPass,       \* the ingestion pass that returned last, if no other pass followed
    killedRows,     \* ids killed runs inserted and left without summary, not scanned since
    report,         \* what run_daily_process returned to main
    exitCode,       \* exit code of the daily_runner.py process, -1 while it runs
    sched,          \* position of the scheduler process
    schedLog,       \* last line the scheduler logged about a run
    opsStarted,     \* number of calls made so far
    overlap,        \* may a call start while another run is active
    bounded,        \* is the number of calls bounded
    storeFaults,    \* may store calls fail
    pages,          \* the pages the extractor can yield
    summaries,      \* the texts the summarizer can yield
    fnPc,           \* position of an adapter called on its own ("none": no such call)
    argContent,     \* content argument of summarize_article_content
    promptContent,  \* the article content placed in the prompt
    runnerEvents,   \* the events runner.run_async yields
    consumed,       \* how many of them the async for loop has taken
    summaryReturned, \* what summarize_article_content returned
    latestEntry,    \* feed.entries[0] of fetch_latest_article
    article,        \* the newspaper Article of extract_article_content
    savedArgs,      \* the arguments save_article is called with
    shown,          \* the last call of get_all_articles: its limit and what it returned
    stats           \* get_article_stats: its position, its counts and what it returned

locals == <<entryLink, articleData, newArticle, summary, response, articles, idx,
            processedCount>>
ghosts_but_trace == <<rowsAtStart, feedSeen, inserted, pendingAtScan, alone, lastPass,
                      killedRows>>
ghosts == <<trace, rowsAtStart, feedSeen, inserted, pendingAtScan, alone, lastPass, killedRows>>
env == <<overlap, bounded, storeFaults, pages, summaries>>
coord == <<report, exitCode>>
scheduler == <<sched, schedLog>>
queries == <<shown, stats>>
calls == <<fnPc, argContent, promptContent, runnerEvents, consumed, summaryReturned,
           latestEntry, article, savedArgs>>
vars == <<store, feed, pc, op, locals, ingestResult, backlogResult, ghosts, opsStarted, env,
          coord, scheduler, calls, queries>>

\* ------------------------------------------------------------- the adapters
\* a datetime newspaper found for the page, or None
NoDate == [day |-> None, time |-> None]

\* the newspaper Article of a page: title, text, authors, publish_date
Page(title, text, authors, date) ==
    [title |-> title, text |-> text, authors |-> authors, publish_date |-> date]

\* the pages of the specification: one without body text, one with
PageOf(outcome) ==
    Page("PageTitle", IF outcome = "no_text" THEN "" ELSE "Body", <<"A1">>, NoDate)

\* ', '.join(article.authors), for the author lists of the model
JoinAuthors(authors) ==
    CASE authors = <<>> -> ""
      [] authors = <<"A1">> -> "A1"
      [] authors = <<"A2">> -> "A2"
      [] authors = <<"A1", "A2">> -> "A1, A2"
      [] authors = <<"A2", "A1">> -> "A2, A1"

\* the dictionary extract_article_content returns for a parsed page
\* (x or 'No Title': the default replaces None and the empty text)
ArticleFields(a) ==
    [title |-> IF Truthy(a.title) THEN a.title ELSE "No Title",
     content |-> IF Truthy(a.text) THEN a.text ELSE "No Content",
     authors |-> IF a.authors # <<>> THEN JoinAuthors(a.authors) ELSE "Unknown Author",
     publish_date |-> IF a.publish_date # NoDate THEN a.publish_date.day ELSE "today"]

\* article.text or 'No Content'
NoArticleData == [content |-> None]

extract_article_content(outcome) ==
    IF outcome = "fail" THEN NoArticleData
    ELSE [content |-> ArticleFields(PageOf(outcome)).content]

\* a key the feed entry does not have
Absent == "<absent>"

\* latest_entry.get(key, default)
EntryGet_default(v, default) == default

EntryGet(v, default) == IF v = Absent THEN default ELSE v

\* title, author, publish_date, article_link, content as fetch_latest_article
\* passes them to save_article
SaveArgs(entry, data) ==
    [title |-> EntryGet(entry.title, data.title),
     author |-> EntryGet(entry.author, data.authors),
     publish_date |-> EntryGet(entry.published, data.publish_date),
     article_link |-> EntryGet(entry.link, ""),
     content |-> data.content]

NoEntry == [title |-> Absent, author |-> Absent, published |-> Absent, link |-> Absent]

NoSaveArgs ==
    [title |-> None, author |-> None, publish_date |-> None, article_link |-> None,
     content |-> None]

\* ------------------------------------------------------------- the store
\* CREATE TABLE quantum_news_rss; INSERT INTO quantum_news_rss (title, author,
\* publish_date, article_link, content): ai_summary is NULL, created_at and
\* updated_at are CURRENT_TIMESTAMP (the timestamps count the writes of the
\* row: 0 is the time of its insert)
RowOf(id, args) ==
    [id |-> id, title |-> args.title, author |-> args.author,
     publish_date |-> args.publish_date, article_link |-> args.article_link,
     content |-> args.content, ai_summary |-> None, created_at |-> 0, updated_at |-> 0]

\* what the runs pass to save_article: their feed entries declare a link
\* only, the other fields are those of the page
RunArgs(link, content) ==
    SaveArgs([NoEntry EXCEPT !.link = link],
             [ArticleFields(PageOf("text")) EXCEPT !.content = content])

Row(id, link, content) == RowOf(id, RunArgs(link, content))

\* SELECT id ... WHERE article_link = ?
article_exists(st, link) == \E i \in 1..Len(st) : st[i].article_link = link

\* INSERT; the UNIQUE constraint on article_link raises IntegrityError
\* (ret = 0 stands for the None the method returns; sqlite3.connect is
\* outside the try block, so a failure to connect leaves the method)
save_article_unchecked(st, link, content, outcome) ==
    IF outcome = "connect_error" THEN [st |-> st, ret |-> 0, raised |-> TRUE]
    ELSE IF outcome = "exec_error" THEN [st |-> st, ret |-> 0, raised |-> FALSE]
    ELSE [st |-> Append(st, Row(Len(st) + 1, link, content)), ret |-> Len(st) + 1,
          raised |-> FALSE]

save_article_raising(st, link, content, outcome) ==
    IF outcome = "connect_error" THEN [st |-> st, ret |-> 0, raised |-> TRUE]
    ELSE IF outcome = "exec_error" THEN [st |-> st, ret |-> 0, raised |-> FALSE]
    ELSE IF article_exists(st, link) THEN [st |-> st, ret |-> 0, raised |-> TRUE]
    ELSE [st |-> Append(st, Row(Len(st) + 1, link, content)), ret |-> Len(st) + 1,
          raised |-> FALSE]

save_article(st, link, content, outcome) ==
    IF outcome = "connect_error" THEN [st |-> st, ret |-> 0, raised |-> TRUE]
    ELSE IF outcome = "exec_error" THEN [st |-> st, ret |-> 0, raised |-> FALSE]
    ELSE IF article_exists(st, link) THEN [st |-> st, ret |-> 0, raised |-> FALSE]
    ELSE [st |-> Append(st, Row(Len(st) + 1, link, content)), ret |-> Len(st) + 1,
          raised |-> FALSE]

\* WHERE ai_summary IS NULL OR ai_summary = ''
WithoutSummary_all(row) == TRUE

WithoutSummary_empty(row) == row.ai_summary = ""

WithoutSummary(row) == row.ai_summary = None \/ row.ai_summary = ""

\* WHERE ai_summary IS NOT NULL AND ai_summary != ''
WithSummary(row) == row.ai_summary # None /\ row.ai_summary # ""

RECURSIVE SelectIds(_, _)
SelectIds(st, i) ==
    IF i > Len(st) THEN <<>>
    ELSE (IF WithoutSummary(st[i]) THEN <<st[i].id>> ELSE <<>>) \o SelectIds(st, i + 1)

get_articles_without_summary_one(st, outcome) ==
    IF outcome = "ok" THEN [rows |-> IF SelectIds(st, 1) = <<>> THEN <<>> ELSE <<Head(SelectIds(st, 1))>>,
                           raised |-> FALSE]
    ELSE [rows |-> <<>>, raised |-> TRUE]

get_articles_without_summary(st, outcome) ==
    IF outcome = "ok" THEN [rows |-> SelectIds(st, 1), raised |-> FALSE]
    ELSE [rows |-> <<>>, raised |-> TRUE]

\* UPDATE ... SET ai_summary = ? WHERE id = ?
update_article_summary_lost(st, id, s, outcome) ==
    IF outcome = "connect_error" THEN [st |-> st, ret |-> FALSE, raised |-> TRUE]
    ELSE IF outcome = "exec_error" THEN [st |-> st, ret |-> FALSE, raised |-> FALSE]
    ELSE [st |-> st, ret |-> TRUE, raised |-> FALSE]

update_article_summary_all(st, id, s, outcome) ==
    IF outcome = "connect_error" THEN [st |-> st, ret |-> FALSE, raised |-> TRUE]
    ELSE IF outcome = "exec_error" THEN [st |-> st, ret |-> FALSE, raised |-> FALSE]
    ELSE [st |-> [i \in 1..Len(st) |-> [st[i] EXCEPT !.ai_summary = s, !.updated_at = @ + 1]],
          ret |-> TRUE, raised |-> FALSE]

update_article_summary_partial(st, id, s, outcome) ==
    IF outcome = "connect_error" THEN [st |-> st, ret |-> FALSE, raised |-> TRUE]
    ELSE [st |-> [i \in 1..Len(st) |-> IF st[i].id = id
                                        THEN [st[i] EXCEPT !.ai_summary = s,
                                                           !.updated_at = @ + 1]
                                        ELSE st[i]],
          ret |-> outcome = "ok", raised |-> FALSE]

update_article_summary(st, id, s, outcome) ==
    IF outcome = "connect_error" THEN [st |-> st, ret |-> FALSE, raised |-> TRUE]
    ELSE IF outcome = "exec_error" THEN [st |-> st, ret |-> FALSE, raised |-> FALSE]
    ELSE [st |-> [i \in 1..Len(st) |-> IF st[i].id = id
                                        THEN [st[i] EXCEPT !.ai_summary = s,
                                                           !.updated_at = @ + 1]
                                        ELSE st[i]],
          ret |-> TRUE, raised |-> FALSE]

\* ------------------------------------------------------------- the query surface
\* def get_all_articles(self, limit=20)
default_limit == 20

\* formatted_articles.append({'id': ..., 'author': article[2] or 'Unknown Author', ...})
Formatted(row) ==
    [id |-> row.id, title |-> row.title,
     author |-> IF row.author \in {None, ""} THEN "Unknown Author" ELSE row.author,
     publish_date |-> row.publish_date, link |-> row.article_link,
     summary |-> row.ai_summary, created_at |-> row.created_at]

\* ORDER BY created_at DESC LIMIT ?: the orders in which the rows ids can
\* come (rows of equal created_at in any order), cut to limit rows
Newest(st, ids, limit) ==
    LET n == IF Cardinality(ids) < limit THEN Cardinality(ids) ELSE limit
    IN {q \in [1..n -> ids] :
          /\ \A i, j \in 1..n : i < j => (q[i] # q[j] /\ st[q[i]].created_at >= st[q[j]].created_at)
          /\ \A i \in 1..n : \A o \in ids \ {q[k] : k \in 1..n} :
                st[q[i]].created_at >= st[o].created_at}

\* SELECT ... WHERE ai_summary IS NOT NULL AND ai_summary != ''
\* ORDER BY created_at DESC LIMIT ?
get_all_articles_pending(st, limit) ==
    {[i \in 1..Len(q) |-> Formatted(st[q[i]])] : q \in Newest(st, 1..Len(st), limit)}

get_all_articles(st, limit) ==
    {[i \in 1..Len(q) |-> Formatted(st[q[i]])] :
        q \in Newest(st, {i \in 1..Len(st) : WithSummary(st[i])}, limit)}

\* SELECT COUNT(*) FROM quantum_news_rss
CountAll(st) == Len(st)

\* SELECT COUNT(*) FROM quantum_news_rss WHERE ai_summary IS NOT NULL AND ai_summary != ''
CountWithSummary(st) == Cardinality({i \in 1..Len(st) : WithSummary(st[i])})

\* SELECT MAX(created_at) FROM quantum_news_rss (-1: NULL, the table is empty)
MaxCreatedAt(st) ==
    IF st = <<>> THEN -1
    ELSE CHOOSE m \in {st[i].created_at : i \in 1..Len(st)} :
             \A i \in 1..Len(st) : st[i].created_at <= m

\* ------------------------------------------------------------- the feed
\* if feed.bozo: return None / if not feed.entries: return None
FeedUsable_entries(fd) == fd.entries # <<>>

FeedUsable(fd) == ~fd.bozo /\ fd.entries # <<>>

\* feed.entries[0]
latest_entry_last(entries) == entries[Len(entries)]

latest_entry(entries) == entries[1]

\* ------------------------------------------------------------- the summarizer
\* max_content_length = 8000
max_content_length == 8000

\* the "..." appended to a truncated content
Marker == <<".", ".", ".">>

\* if len(content) > max_content_length:
\*     content = content[:max_content_length] + "..."
Truncate_atmax(content) ==
    IF Len(content) >= max_content_length
    THEN SubSeq(content, 1, max_content_length) \o Marker
    ELSE content

Truncate(content) ==
    IF Len(content) > max_content_length
    THEN SubSeq(content, 1, max_content_length) \o Marker
    ELSE content

\* an event of runner.run_async: is_final_response(), the text of
\* content.parts[0] (None: no content or no parts), actions.escalate; or the
\* exception the generator raises in place of an event
ResponseEvent(final, text, escalate) ==
    [final |-> final, text |-> text, escalate |-> escalate, raises |-> FALSE]

Failing == [final |-> FALSE, text |-> None, escalate |-> FALSE, raises |-> TRUE]

\* one turn of the async for loop: does summarize_article_content return at
\* this event, and what
OnEvent_text(e) ==
    IF e.raises THEN [returns |-> TRUE, value |-> None]
    ELSE IF e.final /\ e.text # None THEN [returns |-> TRUE, value |-> e.text]
    ELSE [returns |-> FALSE, value |-> None]

OnEvent(e) ==
    IF e.raises THEN [returns |-> TRUE, value |-> None]
    ELSE IF e.final /\ e.text # None THEN [returns |-> TRUE, value |-> e.text]
    ELSE IF e.final /\ e.escalate THEN [returns |-> TRUE, value |-> None]
    ELSE [returns |-> FALSE, value |-> None]

\* the value summarize_article_content returns when the runner yields evs
\* (the `return None` after the loop when no event made it return)
RECURSIVE summarize_article_content(_)
summarize_article_content(evs) ==
    IF evs = <<>> THEN None
    ELSE IF OnEvent(Head(evs)).returns THEN OnEvent(Head(evs)).value
    ELSE summarize_article_content(Tail(evs))

\* the runs of events the collaborator answers a request of a run with: one
\* final text, an escalation, no final event at all, and (when the
\* collaborators may fail) a failure to create the session or the runner and a
\* transport failure after an intermediate event
Responses(sums, faults) ==
    {<<ResponseEvent(TRUE, t, FALSE)>> : t \in sums \cup {""}}
      \cup {<<ResponseEvent(FALSE, None, FALSE), ResponseEvent(TRUE, None, TRUE)>>, <<>>}
      \cup (IF faults THEN {<<Failing>>, <<ResponseEvent(FALSE, None, FALSE), Failing>>}
          ELSE {})

\* no request was made (sent: the request is under way; events stay as the
\* last answer until the next request)
NoResponse == [sent |-> FALSE, events |-> <<>>]

\* ------------------------------------------------------------- results
NoNewArticles_error == [status |-> "error", message |-> "No new articles", summary |-> None]

NoNewArticles == [status |-> "no_new_articles", message |-> None, summary |-> None]

Failure(msg) == [status |-> "error", message |-> msg, summary |-> None]

Success(s) == [status |-> "success", message |-> None, summary |-> s]

NoResult == [status |-> None, message |-> None, summary |-> None]

\* {'processed_count': ..., 'total_articles': ...} / {'processed_count': 0, 'error': ...}
\* (-1 stands for a key the dictionary does not have)
Counted_total(processed, total) ==
    [processed_count |-> total, total_articles |-> total, error |-> None]

Counted(processed, total) ==
    [processed_count |-> processed, total_articles |-> total, error |-> None]

BacklogError(msg) == [processed_count |-> 0, total_articles |-> -1, error |-> msg]

NoBacklogResult == [processed_count |-> -1, total_articles |-> -1, error |-> None]

\* the backlog line of the text that generate_daily_summary returns: its
\* wording, and the counts it shows (-1: the line shows no count)
NoLine == [text |-> None, processed |-> -1, total |-> -1]

BacklogLine_total(result) ==
    IF result.error # None
    THEN [text |-> "BACKLOG ERROR", processed |-> -1, total |-> -1]
    ELSE IF result.total_articles > 0
    THEN [text |-> "BACKLOG PROCESSING", processed |-> result.processed_count,
          total |-> result.total_articles]
    ELSE [text |-> "BACKLOG: No articles requiring summary processing",
          processed |-> -1, total |-> -1]

BacklogLine(result) ==
    IF result.error # None
    THEN [text |-> "BACKLOG ERROR", processed |-> -1, total |-> -1]
    ELSE IF result.processed_count > 0
    THEN [text |-> "BACKLOG PROCESSING", processed |-> result.processed_count,
          total |-> result.total_articles]
    ELSE [text |-> "BACKLOG: No articles requiring summary processing",
          processed |-> -1, total |-> -1]

\* what run_daily_process logs after the backlog phase
BacklogLog(result) ==
    IF result.error # None
    THEN [text |-> "Error processing backlog", processed |-> -1, total |-> -1]
    ELSE IF result.processed_count > 0
    THEN [text |-> "Processed", processed |-> result.processed_count,
          total |-> result.total_articles]
    ELSE [text |-> "No articles in backlog requiring processing",
          processed |-> -1, total |-> -1]

NoReport ==
    [status |-> None, error |-> None, new_articles |-> NoResult,
     backlog_processing |-> NoBacklogResult, summary |-> NoLine]

\* return {'status': 'success', 'new_articles': ..., 'backlog_processing': ..., ...}
SuccessReport(new, backlog) ==
    [status |-> "success", error |-> None, new_articles |-> new,
     backlog_processing |-> backlog, summary |-> BacklogLine(backlog)]

\* except Exception as e: return {'status': 'error', 'error': str(e), ...}
ErrorReport(msg) ==
    [status |-> "error", error |-> msg, new_articles |-> NoResult,
     backlog_processing |-> NoBacklogResult, summary |-> NoLine]

\* the daily_runner.py process has not exited
NoExit == -1

\* except KeyboardInterrupt: sys.exit(130)
ExitInterrupted == 130

Event(ev, link, id, res) == [ev |-> ev, link |-> link, id |-> id, res |-> res]

\* ------------------------------------------------------------- initial state
NoFeed == [bozo |-> FALSE, entries |-> <<>>]

NoPass == [valid |-> FALSE, feed |-> NoFeed, status |-> None, inserted |-> 0, stored |-> FALSE]

\* no query was made
NoShown == [limit |-> -1, articles |-> <<>>]

NoStats ==
    [at |-> "none", total_articles |-> -1, articles_with_summary |-> -1,
     articles_without_summary |-> -1, last_updated |-> -1]

NoQueries ==
    /\ shown = NoShown
    /\ stats = NoStats

InitRuns ==
    /\ feed = NoFeed
    /\ pc = [r \in Runs |-> "idle"]
    /\ op = [r \in Runs |-> None]
    /\ entryLink = [r \in Runs |-> None]
    /\ articleData = [r \in Runs |-> NoArticleData]
    /\ newArticle = [r \in Runs |-> 0]
    /\ summary = [r \in Runs |-> None]
    /\ response = [r \in Runs |-> NoResponse]
    /\ articles = [r \in Runs |-> <<>>]
    /\ idx = [r \in Runs |-> 0]
    /\ processedCount = [r \in Runs |-> 0]
    /\ ingestResult = [r \in Runs |-> NoResult]
    /\ backlogResult = [r \in Runs |-> NoBacklogResult]
    /\ trace = [r \in Runs |-> <<>>]
    /\ report = [r \in Runs |-> NoReport]
    /\ exitCode = [r \in Runs |-> NoExit]
    /\ sched = "polling"
    /\ schedLog = "started"
    /\ rowsAtStart = [r \in Runs |-> 0]
    /\ feedSeen = [r \in Runs |-> NoFeed]
    /\ inserted = [r \in Runs |-> {}]
    /\ pendingAtScan = [r \in Runs |-> {}]
    /\ alone = [r \in Runs |-> TRUE]
    /\ lastPass = NoPass
    /\ killedRows = {}

\* no adapter is called on its own
NoCalls ==
    /\ fnPc = "none"
    /\ argContent = <<>>
    /\ promptContent = <<>>
    /\ runnerEvents = <<>>
    /\ consumed = 0
    /\ summaryReturned = None
    /\ latestEntry = NoEntry
    /\ article = Page(None, None, <<>>, NoDate)
    /\ savedArgs = NoSaveArgs

InitCommon ==
    /\ InitRuns
    /\ NoQueries
    /\ NoCalls
    /\ store = <<>>
    /\ opsStarted = 0

Init ==
    /\ InitCommon
    /\ overlap = FALSE /\ bounded = TRUE /\ storeFaults = FALSE
    /\ pages = {"no_text", "text"} /\ summaries = {"S1", "S2"}

InitOverlap ==
    /\ InitCommon
    /\ overlap = TRUE /\ bounded = TRUE /\ storeFaults = FALSE
    /\ pages = {"text"} /\ summaries = {"S1", "S2"}

InitFaults ==
    /\ InitCommon
    /\ overlap = FALSE /\ bounded = TRUE /\ storeFaults = TRUE
    /\ pages = {"text"} /\ summaries = {"S1"}

\* the table after n articles were stored and none of them summarized
RECURSIVE Stored(_)
Stored(n) ==
    IF n = 0 THEN <<>>
    ELSE save_article(Stored(n - 1), OldLinks[n], extract_article_content("text").content,
                      "ok").st

\* the database file holds the rows earlier runs left without summary, and
\* one more call is made
InitBacklog ==
    /\ InitRuns
    /\ NoQueries
    /\ NoCalls
    /\ \E n \in 0..MaxOld : store = Stored(n)
    /\ opsStarted = MaxOps - 1
    /\ overlap = FALSE /\ bounded = TRUE /\ storeFaults = FALSE
    /\ pages = {"text"} /\ summaries = {"S1"}

\* ------------------------------------------------------------- calls
Active(r) == pc[r] # "idle"

\* a run reads the feed once, in FetchParse: the feed is let change only
\* when that read can be the next step of some run, or between runs
FeedMayChange == (\A r \in Runs : ~Active(r)) \/ (\E r \in Runs : pc[r] = "parse")

\* the publisher puts a new entry first (a feed lists an article once)
FeedPublish ==
    /\ FeedMayChange
    /\ \E l \in Links \ {feed.entries[i] : i \in 1..Len(feed.entries)} :
          feed' = [feed EXCEPT !.entries = SubSeq(<<l>> \o feed.entries, 1,
                       IF Len(feed.entries) < MaxFeed THEN Len(feed.entries) + 1 ELSE MaxFeed)]
    /\ UNCHANGED <<store, pc, op, locals, ingestResult, backlogResult, ghosts, opsStarted, env, queries, calls, coord, scheduler>>

\* the document becomes unparsable or unreachable, or parsable again
FeedBozo ==
    /\ FeedMayChange
    /\ feed' = [feed EXCEPT !.bozo = ~feed.bozo]
    /\ UNCHANGED <<store, pc, op, locals, ingestResult, backlogResult, ghosts, opsStarted, env, queries, calls, coord, scheduler>>

\* the manual run is the one that overlaps: it starts during the scheduled run
MayStart(r) ==
    /\ pc[r] = "idle"
    /\ sched # "stopped"
    /\ bounded => opsStarted < (IF overlap THEN MaxOverlapOps ELSE MaxOps)
    /\ IF r = "scheduled" THEN ~Active("manual") ELSE overlap /\ Active("scheduled")

\* a caller enters one of the entry points; the daily run is the one the
\* scheduler starts from its polling loop, it then waits in subprocess.run
\* (the manual run calls the agent's entry points)
Enter(r, kind, first) ==
    /\ MayStart(r)
    /\ kind = "daily" => (r = "scheduled" /\ sched = "polling")
    /\ sched' = IF kind = "daily" THEN "waiting" ELSE sched
    /\ schedLog' = IF kind = "daily" THEN "starting" ELSE schedLog
    /\ op' = [op EXCEPT ![r] = kind]
    /\ pc' = [pc EXCEPT ![r] = first]
    /\ opsStarted' = IF bounded THEN opsStarted + 1 ELSE opsStarted
    /\ rowsAtStart' = [rowsAtStart EXCEPT ![r] = Len(store)]
    /\ alone' = [q \in Runs |-> \A o \in Runs \ {q} : ~Active(o) /\ o # r]
    /\ UNCHANGED <<store, feed, locals, ingestResult, backlogResult, trace, feedSeen, inserted,
                   pendingAtScan, lastPass, killedRows, env, queries, calls, coord>>

\* QuantumNewsAgent.process_new_articles called on its own
process_new_articles(r) == Enter(r, "ingest", "parse")

\* QuantumNewsAgent.process_existing_articles_without_summary called on its own
process_existing_articles_without_summary(r) == Enter(r, "backlog", "scan")

\* daily_runner.py main: DailyNewsProcessor(), then run_daily_process
run_daily_process(r) == Enter(r, "daily", "construct")

\* can the daily_runner.py process be created: subprocess.run raises when not
LaunchOutcomes(faults) == IF faults THEN {"ok", "launch_error"} ELSE {"ok"}

\* scheduler.py run_daily_processing: subprocess.run([sys.executable,
\* "daily_runner.py"], timeout=1800); except Exception: "Error running
\* daily processing"
run_daily_processing(r) ==
    \E o \in LaunchOutcomes(storeFaults) :
        IF o = "ok"
        THEN run_daily_process(r)
        ELSE /\ r = "scheduled"
             /\ MayStart(r)
             /\ sched = "polling"
             /\ schedLog' = "error"
             /\ UNCHANGED <<store, feed, pc, op, locals, ingestResult, backlogResult, ghosts,
                            opsStarted, env, queries, calls, coord, sched>>

\* ------------------------------------------------------------- ingestion
Log(r, e) == trace' = [trace EXCEPT ![r] = Append(@, e)]

\* process_new_articles returns res
IngestReturns(r, res) ==
    /\ ingestResult' = [ingestResult EXCEPT ![r] = res]
    /\ pc' = [pc EXCEPT ![r] = "ingest_ret"]

\* fetch_latest_article returned None: the else branch of process_new_articles
FetchReturnsNone(r) == IngestReturns(r, NoNewArticles)

\* except Exception as e: logging.error(...); return None
FetchCaught_propagates(r) == IngestReturns(r, Failure("exception"))

FetchCaught(r) == FetchReturnsNone(r)

\* feedparser.parse, feed.bozo, feed.entries, latest_entry.get("link")
FetchParse(r) ==
    /\ pc[r] = "parse"
    /\ feedSeen' = [feedSeen EXCEPT ![r] = feed]
    /\ Log(r, Event("parse", None, 0, IF feed.bozo THEN "bozo"
                                       ELSE IF feed.entries = <<>> THEN "empty" ELSE "ok"))
    /\ IF ~FeedUsable(feed)
       THEN /\ FetchReturnsNone(r)
            /\ UNCHANGED entryLink
       ELSE /\ entryLink' = [entryLink EXCEPT ![r] = latest_entry(feed.entries)]
            /\ pc' = [pc EXCEPT ![r] = "exists"]
            /\ UNCHANGED ingestResult
    /\ UNCHANGED <<store, feed, op, articleData, newArticle, summary, response, articles, idx,
                   processedCount, backlogResult, rowsAtStart, inserted, pendingAtScan,
                   alone, lastPass, killedRows, opsStarted, env, queries, calls, coord, scheduler>>

\* where fetch_latest_article goes after the existence check
AfterExists_extract(res) == "extract"

AfterExists(res) == IF res = "not_found" THEN "extract" ELSE "return"

\* if self.article_exists(article_link): return None
\* (article_exists has no try block: any store failure raises into the
\* except clause of fetch_latest_article, which returns None)
FetchExists(r) ==
    /\ pc[r] = "exists"
    /\ \E o \in StoreOutcomes(storeFaults) :
         LET res == IF o # "ok" THEN Raised
                    ELSE IF article_exists(store, entryLink[r]) THEN "found"
                    ELSE "not_found"
         IN /\ Log(r, Event("exists", entryLink[r], 0, res))
            /\ IF AfterExists(res) = "extract"
               THEN /\ pc' = [pc EXCEPT ![r] = "extract"]
                    /\ UNCHANGED ingestResult
               ELSE IF res = Raised THEN FetchCaught(r) ELSE FetchReturnsNone(r)
    /\ UNCHANGED <<store, feed, op, locals, backlogResult, ghosts_but_trace, opsStarted, env, queries, calls, coord, scheduler>>

\* article_data = self.extract_article_content(article_link)
FetchExtract(r) ==
    /\ pc[r] = "extract"
    /\ \E o \in ExtractOutcomes(pages) :
         LET data == extract_article_content(o)
         IN /\ Log(r, Event("extract", entryLink[r], 0,
                            IF data = NoArticleData THEN "fail" ELSE "ok"))
            /\ articleData' = [articleData EXCEPT ![r] = data]
            /\ IF data = NoArticleData
               THEN FetchReturnsNone(r)
               ELSE /\ pc' = [pc EXCEPT ![r] = "save"]
                    /\ UNCHANGED ingestResult
    /\ UNCHANGED <<store, feed, op, entryLink, newArticle, summary, response, articles, idx,
                   processedCount, backlogResult, ghosts_but_trace, opsStarted, env, queries, calls, coord, scheduler>>

\* article_id = self.save_article(...); if article_id: return {...}; return None
FetchSave(r) ==
    /\ pc[r] = "save"
    /\ \E o \in StoreOutcomes(storeFaults) :
         LET s == save_article(store, entryLink[r], articleData[r].content, o)
         IN /\ store' = s.st
            /\ inserted' = [inserted EXCEPT ![r] = IF s.ret # 0 THEN @ \cup {s.ret} ELSE @]
            /\ Log(r, Event("save", entryLink[r], s.ret,
                            IF s.raised THEN Raised ELSE IF s.ret # 0 THEN "ok" ELSE "none"))
            /\ IF s.ret # 0
               THEN /\ newArticle' = [newArticle EXCEPT ![r] = s.ret]
                    /\ pc' = [pc EXCEPT ![r] = "summarize"]
                    /\ UNCHANGED ingestResult
               ELSE /\ IF s.raised THEN FetchCaught(r) ELSE FetchReturnsNone(r)
                    /\ UNCHANGED newArticle
    /\ UNCHANGED <<feed, op, entryLink, articleData, summary, response, articles, idx, processedCount,
                   backlogResult, rowsAtStart, feedSeen, pendingAtScan, alone, lastPass,
                   killedRows, opsStarted, env, queries, calls, coord, scheduler>>

\* runner.run_async: the collaborator answers the request of the run that is
\* about to summarize
Respond(r) ==
    /\ pc[r] \in {"summarize", "loop"}
    /\ ~response[r].sent
    /\ \E evs \in Responses(summaries, storeFaults) :
         response' = [response EXCEPT ![r] = [sent |-> TRUE, events |-> evs]]
    /\ UNCHANGED <<store, feed, pc, op, entryLink, articleData, newArticle, summary, articles,
                   idx, processedCount, ingestResult, backlogResult, ghosts, opsStarted, env, queries,
                   calls, coord, scheduler>>

\* summary = await self.summarize_article_content(new_article['content'])
NewSummarize(r) ==
    /\ pc[r] = "summarize"
    /\ response[r].sent
    /\ response' = [response EXCEPT ![r].sent = FALSE]
    /\ LET s == summarize_article_content(response[r].events) IN
         /\ Log(r, Event("summarize", entryLink[r], newArticle[r],
                         IF Truthy(s) THEN "ok" ELSE "fail"))
         /\ summary' = [summary EXCEPT ![r] = IF Truthy(s) THEN s ELSE None]
         /\ IF Truthy(s)
            THEN /\ pc' = [pc EXCEPT ![r] = "update"]
                 /\ UNCHANGED ingestResult
            ELSE IngestReturns(r, Failure("Failed to generate summary"))
    /\ UNCHANGED <<store, feed, op, entryLink, articleData, newArticle, articles, idx,
                   processedCount, backlogResult, ghosts_but_trace, opsStarted, env, queries, calls, coord, scheduler>>

\* success = self.rss_parser.update_article_summary(new_article['id'], summary)
NewUpdate(r) ==
    /\ pc[r] = "update"
    /\ \E o \in StoreOutcomes(storeFaults) :
         LET u == update_article_summary(store, newArticle[r], summary[r], o)
         IN /\ store' = u.st
            /\ Log(r, Event("update", entryLink[r], newArticle[r],
                            IF u.raised THEN Raised ELSE IF u.ret THEN "ok" ELSE "false"))
            /\ IngestReturns(r, IF u.raised THEN Failure("exception")
                                ELSE IF u.ret THEN Success(summary[r])
                                ELSE Failure("Failed to save summary"))
    /\ UNCHANGED <<feed, op, locals, backlogResult, ghosts_but_trace, opsStarted, env, queries, calls, coord, scheduler>>

\* ------------------------------------------------------------- backlog
\* the for loop moves to the next row, or ends: return {'processed_count': ...}
LoopNext_first(r, count, rows) ==
    /\ processedCount' = [processedCount EXCEPT ![r] = count]
    /\ idx' = [idx EXCEPT ![r] = @ + 1]
    /\ backlogResult' = [backlogResult EXCEPT ![r] = Counted(count, Len(rows))]
    /\ pc' = [pc EXCEPT ![r] = "backlog_ret"]

LoopNext_retry(r, count, rows) ==
    /\ processedCount' = [processedCount EXCEPT ![r] = count]
    /\ idx' = [idx EXCEPT ![r] = IF @ > 0 /\ count = processedCount[r] THEN @ ELSE @ + 1]
    /\ IF idx'[r] > Len(rows)
       THEN /\ backlogResult' = [backlogResult EXCEPT ![r] = Counted(count, Len(rows))]
            /\ pc' = [pc EXCEPT ![r] = "backlog_ret"]
       ELSE /\ pc' = [pc EXCEPT ![r] = "loop"]
            /\ UNCHANGED backlogResult

LoopNext_break(r, count, rows) ==
    /\ processedCount' = [processedCount EXCEPT ![r] = count]
    /\ idx' = [idx EXCEPT ![r] = @ + 1]
    /\ IF idx[r] + 1 > Len(rows) \/ (idx[r] > 0 /\ count = processedCount[r])
       THEN /\ backlogResult' = [backlogResult EXCEPT ![r] = Counted(count, Len(rows))]
            /\ pc' = [pc EXCEPT ![r] = "backlog_ret"]
       ELSE /\ pc' = [pc EXCEPT ![r] = "loop"]
            /\ UNCHANGED backlogResult

LoopNext(r, count, rows) ==
    /\ processedCount' = [processedCount EXCEPT ![r] = count]
    /\ idx' = [idx EXCEPT ![r] = @ + 1]
    /\ IF idx[r] + 1 > Len(rows)
       THEN /\ backlogResult' = [backlogResult EXCEPT ![r] = Counted(count, Len(rows))]
            /\ pc' = [pc EXCEPT ![r] = "backlog_ret"]
       ELSE /\ pc' = [pc EXCEPT ![r] = "loop"]
            /\ UNCHANGED backlogResult

\* articles = self.rss_parser.get_articles_without_summary(); processed_count = 0
\* (in run_daily_process this is step 2, entered when step 1 has returned)
BacklogScan(r) ==
    /\ pc[r] = "scan" \/ (pc[r] = "ingest_ret" /\ op[r] = "daily")
    /\ \E o \in StoreOutcomes(storeFaults) :
         LET g == get_articles_without_summary(store, o)
         IN /\ Log(r, Event("scan", None, Len(g.rows), IF g.raised THEN Raised ELSE "ok"))
            /\ articles' = [articles EXCEPT ![r] = g.rows]
            /\ IF g.raised
               THEN /\ backlogResult' = [backlogResult EXCEPT ![r] = BacklogError("exception")]
                    /\ pc' = [pc EXCEPT ![r] = "backlog_ret"]
                    /\ UNCHANGED <<idx, processedCount>>
               ELSE LoopNext(r, 0, g.rows)
    /\ pendingAtScan' = [pendingAtScan EXCEPT ![r] =
                           {store[i].id : i \in {j \in 1..Len(store) : ~WithSummary(store[j])}}]
    /\ rowsAtStart' = [rowsAtStart EXCEPT ![r] = Len(store)]
    /\ lastPass' = NoPass
    /\ UNCHANGED <<store, feed, op, entryLink, articleData, newArticle, summary, response,
                   ingestResult,
                   feedSeen, inserted, alone, killedRows, opsStarted, env, queries, calls, coord, scheduler>>

\* summary = await self.summarize_article_content(content)
BacklogSummarize(r) ==
    /\ pc[r] = "loop"
    /\ response[r].sent
    /\ response' = [response EXCEPT ![r].sent = FALSE]
    /\ LET s == summarize_article_content(response[r].events) IN
         /\ Log(r, Event("bl_summarize", None, articles[r][idx[r]],
                         IF Truthy(s) THEN "ok" ELSE "fail"))
         /\ summary' = [summary EXCEPT ![r] = IF Truthy(s) THEN s ELSE None]
         /\ IF Truthy(s)
            THEN /\ pc' = [pc EXCEPT ![r] = "bl_update"]
                 /\ UNCHANGED <<idx, processedCount, backlogResult>>
            ELSE LoopNext(r, processedCount[r], articles[r])
    /\ UNCHANGED <<store, feed, op, entryLink, articleData, newArticle, articles, ingestResult,
                   ghosts_but_trace, opsStarted, env, queries, calls, coord, scheduler>>

\* success = self.rss_parser.update_article_summary(article_id, summary)
BacklogUpdate(r) ==
    /\ pc[r] = "bl_update"
    /\ \E o \in StoreOutcomes(storeFaults) :
         LET u == update_article_summary(store, articles[r][idx[r]], summary[r], o)
         IN /\ store' = u.st
            /\ Log(r, Event("bl_update", None, articles[r][idx[r]],
                            IF u.raised THEN Raised ELSE IF u.ret THEN "ok" ELSE "false"))
            /\ IF u.raised
               THEN /\ backlogResult' = [backlogResult EXCEPT ![r] = BacklogError("exception")]
                    /\ pc' = [pc EXCEPT ![r] = "backlog_ret"]
                    /\ UNCHANGED <<idx, processedCount>>
               ELSE LoopNext(r, IF u.ret THEN processedCount[r] + 1 ELSE processedCount[r],
                             articles[r])
    /\ summary' = [summary EXCEPT ![r] = None]
    /\ UNCHANGED <<feed, op, entryLink, articleData, newArticle, response, articles, ingestResult,
                   ghosts_but_trace, opsStarted, env, queries, calls, coord, scheduler>>

\* the record of the ingestion pass that returns
PassRecord(r) ==
    [valid |-> TRUE, feed |-> feedSeen[r], status |-> ingestResult[r].status,
     inserted |-> Cardinality(inserted[r]),
     stored |-> /\ ~feedSeen[r].bozo
                /\ feedSeen[r].entries # <<>>
                /\ article_exists(store, entryLink[r])]

\* the frames of a run are unwound: its locals and results are gone
Unwind(r) ==
    /\ entryLink' = [entryLink EXCEPT ![r] = None]
    /\ articleData' = [articleData EXCEPT ![r] = NoArticleData]
    /\ newArticle' = [newArticle EXCEPT ![r] = 0]
    /\ summary' = [summary EXCEPT ![r] = None]
    /\ response' = [response EXCEPT ![r] = NoResponse]
    /\ articles' = [articles EXCEPT ![r] = <<>>]
    /\ idx' = [idx EXCEPT ![r] = 0]
    /\ processedCount' = [processedCount EXCEPT ![r] = 0]
    /\ ingestResult' = [ingestResult EXCEPT ![r] = NoResult]
    /\ backlogResult' = [backlogResult EXCEPT ![r] = NoBacklogResult]
    /\ rowsAtStart' = [rowsAtStart EXCEPT ![r] = 0]
    /\ feedSeen' = [feedSeen EXCEPT ![r] = NoFeed]
    /\ inserted' = [inserted EXCEPT ![r] = {}]
    /\ pendingAtScan' = [pendingAtScan EXCEPT ![r] = {}]
    /\ alone' = [alone EXCEPT ![r] = TRUE]
    /\ report' = [report EXCEPT ![r] = NoReport]

\* a run is over: nothing of it is left
Clear(r) ==
    /\ Unwind(r)
    /\ pc' = [pc EXCEPT ![r] = "idle"]
    /\ op' = [op EXCEPT ![r] = None]
    /\ trace' = [trace EXCEPT ![r] = <<>>]
    /\ exitCode' = [exitCode EXCEPT ![r] = NoExit]

\* the rows a run leaves without summary when it is stopped before its end
LeftPending(r) == {id \in killedRows \cup inserted[r] : WithoutSummary(store[id])}

\* has the run read the rows without summary
Scanned(r) == \E i \in 1..Len(trace[r]) : trace[r][i].ev = "scan"

\* process.kill() of subprocess.run when the timeout expires
Kill_survives(r) ==
    UNCHANGED <<pc, op, locals, ingestResult, backlogResult, trace, rowsAtStart, feedSeen,
                inserted, pendingAtScan, alone, coord>>

Kill(r) == Clear(r)

\* the entry point returns to its caller
Return(r) ==
    /\ \/ pc[r] = "ingest_ret" /\ op[r] = "ingest"
       \/ pc[r] = "backlog_ret" /\ op[r] = "backlog"
    /\ Clear(r)
    /\ lastPass' = IF op[r] = "ingest" /\ alone[r] THEN PassRecord(r) ELSE NoPass
    /\ killedRows' = IF Scanned(r) THEN {} ELSE killedRows
    /\ UNCHANGED <<store, feed, opsStarted, env, queries, calls, scheduler>>

\* ------------------------------------------------------------- coordinator
\* what the statements of main and of run_daily_process themselves (the
\* constructors, the logging, generate_daily_summary) can do: complete, or
\* raise an exception
CoordinatorOutcomes(faults) == IF faults THEN {"ok", "raise"} ELSE {"ok"}

\* if result['status'] == 'success': sys.exit(0) else: sys.exit(1)
ExitCode_zero(status) == 0

ExitCode(status) == IF status = "success" THEN 0 ELSE 1

\* processor = DailyNewsProcessor(); except Exception: sys.exit(1)
Construct(r) ==
    /\ pc[r] = "construct"
    /\ \E o \in CoordinatorOutcomes(storeFaults) :
         IF o = "ok"
         THEN /\ pc' = [pc EXCEPT ![r] = "parse"]
              /\ UNCHANGED <<trace, exitCode>>
         ELSE /\ Log(r, Event("construct", None, 0, Raised))
              /\ exitCode' = [exitCode EXCEPT ![r] = ExitCode("error")]
              /\ pc' = [pc EXCEPT ![r] = "exited"]
    /\ UNCHANGED <<store, feed, op, locals, ingestResult, backlogResult, ghosts_but_trace,
                   opsStarted, env, queries, calls, report, scheduler>>

\* step 3 starts when step 2 has returned
ReportReady_early(r) == op[r] = "daily" /\ pc[r] \in {"ingest_ret", "backlog_ret"}

ReportReady(r) == op[r] = "daily" /\ pc[r] = "backlog_ret"

\* the value run_daily_process returns: the report of step 3, or the one of
\* its except clause
RunReport_success(outcome, new, backlog) == SuccessReport(new, backlog)

RunReport_phase(outcome, new, backlog) ==
    IF outcome = "raise" \/ new.status = "error" \/ backlog.error # None
    THEN ErrorReport("exception")
    ELSE SuccessReport(new, backlog)

RunReport(outcome, new, backlog) ==
    IF outcome = "raise" THEN ErrorReport("exception") ELSE SuccessReport(new, backlog)

\* run_daily_process after step 2: the log lines, generate_daily_summary,
\* return {...}; except Exception as e: return {'status': 'error', ...}
DailyReport(r) ==
    /\ ReportReady(r)
    /\ \E o \in CoordinatorOutcomes(storeFaults) :
         /\ Log(r, Event("report", None, 0, IF o = "raise" THEN Raised ELSE "ok"))
         /\ report' = [report EXCEPT ![r] = RunReport(o, ingestResult[r], backlogResult[r])]
    /\ pc' = [pc EXCEPT ![r] = "report_ret"]
    /\ UNCHANGED <<store, feed, op, locals, ingestResult, backlogResult, ghosts_but_trace,
                   opsStarted, env, queries, calls, exitCode, scheduler>>

\* main: result = asyncio.run(...); sys.exit(0) or sys.exit(1)
MainExit(r) ==
    /\ pc[r] = "report_ret"
    /\ exitCode' = [exitCode EXCEPT ![r] = ExitCode(report[r].status)]
    /\ pc' = [pc EXCEPT ![r] = "exited"]
    /\ UNCHANGED <<store, feed, op, locals, ingestResult, backlogResult, ghosts, opsStarted,
                   env, queries, calls, report, scheduler>>

\* the user interrupts the daily_runner.py process: KeyboardInterrupt passes
\* every `except Exception` and reaches main, which exits with 130
Interrupt(r) ==
    /\ op[r] = "daily"
    /\ pc[r] \notin {"idle", "exited"}
    /\ Unwind(r)
    /\ trace' = [trace EXCEPT ![r] = <<Event("interrupt", None, 0, Raised)>>]
    /\ exitCode' = [exitCode EXCEPT ![r] = ExitInterrupted]
    /\ pc' = [pc EXCEPT ![r] = "exited"]
    /\ killedRows' = LeftPending(r)
    /\ UNCHANGED <<store, feed, op, lastPass, opsStarted, env, queries, calls, scheduler>>

\* ------------------------------------------------------------- scheduler
\* the line run_daily_processing logs for a return code
RunLogged(returncode) == IF returncode = 0 THEN "completed" ELSE "failed"

\* where the scheduler is after run_daily_processing has logged an outcome:
\* the function returns and main is back in its `while True` loop
AfterRun_stops(outcome) == IF outcome = "completed" THEN "polling" ELSE "stopped"

AfterRun(outcome) == "polling"

\* subprocess.run returns: the process has exited with a return code
SchedReap ==
    /\ sched = "waiting"
    /\ pc["scheduled"] = "exited"
    /\ schedLog' = RunLogged(exitCode["scheduled"])
    /\ sched' = AfterRun(RunLogged(exitCode["scheduled"]))
    /\ Clear("scheduled")
    /\ lastPass' = NoPass
    /\ killedRows' = IF Scanned("scheduled") THEN {} ELSE killedRows
    /\ UNCHANGED <<store, feed, opsStarted, env, queries, calls>>

\* subprocess.run kills the process after 1800 s and raises TimeoutExpired
SchedTimeout ==
    /\ sched = "waiting"
    /\ pc["scheduled"] # "exited"
    /\ schedLog' = "timeout"
    /\ sched' = AfterRun("timeout")
    /\ Kill("scheduled")
    /\ lastPass' = NoPass
    /\ killedRows' = LeftPending("scheduled")
    /\ UNCHANGED <<store, feed, opsStarted, env, queries, calls>>

\* the user interrupts the scheduler in its polling loop: except
\* KeyboardInterrupt in main.  (The step touches nothing the runs use, so it
\* is taken between runs only; an interrupt during subprocess.run kills the
\* process as SchedTimeout does.)
SchedStop ==
    /\ sched = "polling"
    /\ \A r \in Runs : ~Active(r)
    /\ sched' = "stopped"
    /\ schedLog' = "stopped by user"
    /\ UNCHANGED <<store, feed, pc, op, locals, ingestResult, backlogResult, ghosts,
                   opsStarted, env, queries, calls, coord>>

\* ------------------------------------------------------------- specification
Next ==
    \/ FeedPublish
    \/ FeedBozo
    \/ \E r \in Runs : process_new_articles(r)
    \/ \E r \in Runs : process_existing_articles_without_summary(r)
    \/ \E r \in Runs : run_daily_processing(r)
    \/ \E r \in Runs : Construct(r)
    \/ \E r \in Runs : FetchParse(r)
    \/ \E r \in Runs : FetchExists(r)
    \/ \E r \in Runs : FetchExtract(r)
    \/ \E r \in Runs : FetchSave(r)
    \/ \E r \in Runs : Respond(r)
    \/ \E r \in Runs : NewSummarize(r)
    \/ \E r \in Runs : NewUpdate(r)
    \/ \E r \in Runs : BacklogScan(r)
    \/ \E r \in Runs : BacklogSummarize(r)
    \/ \E r \in Runs : BacklogUpdate(r)
    \/ \E r \in Runs : DailyReport(r)
    \/ \E r \in Runs : MainExit(r)
    \/ \E r \in Runs : Interrupt(r)
    \/ \E r \in Runs : Return(r)
    \/ SchedReap
    \/ SchedTimeout
    \/ SchedStop

\* the limits get_all_articles is called with
Limits == 0..MaxLimit \cup {default_limit}

\* QuantumNewsDB.get_all_articles(limit)
GetAllArticles ==
    /\ \E limit \in Limits : \E res \in get_all_articles(store, limit) :
          shown' = [limit |-> limit, articles |-> res]
    /\ UNCHANGED <<store, feed, pc, op, locals, ingestResult, backlogResult, ghosts, opsStarted,
                   env, coord, scheduler, calls, stats>>

\* QuantumNewsDB.get_article_stats, its first query: total_articles
GetArticleStatsTotal ==
    /\ stats.at # "counted"
    /\ stats' = [NoStats EXCEPT !.at = "counted", !.total_articles = CountAll(store)]
    /\ UNCHANGED <<store, feed, pc, op, locals, ingestResult, backlogResult, ghosts, opsStarted,
                   env, coord, scheduler, calls, shown>>

\* its second and third query, and the dict it returns
GetArticleStats ==
    /\ stats.at = "counted"
    /\ stats' = [at |-> "returned",
                 total_articles |-> stats.total_articles,
                 articles_with_summary |-> CountWithSummary(store),
                 articles_without_summary |-> stats.total_articles - CountWithSummary(store),
                 last_updated |-> MaxCreatedAt(store)]
    /\ UNCHANGED <<store, feed, pc, op, locals, ingestResult, backlogResult, ghosts, opsStarted,
                   env, coord, scheduler, calls, shown>>

\* a call of the agent at work (ingestion or backlog pass, called directly)
\* and the query surface answering requests in between
NextQuery ==
    \/ FeedPublish
    \/ process_new_articles("scheduled")
    \/ process_existing_articles_without_summary("scheduled")
    \/ FetchParse("scheduled")
    \/ FetchExists("scheduled")
    \/ FetchExtract("scheduled")
    \/ FetchSave("scheduled")
    \/ Respond("scheduled")
    \/ NewSummarize("scheduled")
    \/ NewUpdate("scheduled")
    \/ BacklogScan("scheduled")
    \/ BacklogSummarize("scheduled")
    \/ BacklogUpdate("scheduled")
    \/ Return("scheduled")
    \/ GetAllArticles
    \/ GetArticleStatsTotal
    \/ GetArticleStats

\* runs one after the other, the store answers every call
Spec == Init /\ [][Next]_vars

\* one call of the agent on a database that earlier runs left with rows without
\* summary, while the query surface is in use
InitQuery ==
    /\ InitRuns
    /\ NoQueries
    /\ NoCalls
    /\ \E n \in 0..MaxQueryOld : store = Stored(n)
    /\ opsStarted = MaxOps - 1
    /\ overlap = FALSE /\ bounded = TRUE /\ storeFaults = FALSE
    /\ pages = {"text"} /\ summaries = {"S1"}

SpecQuery == InitQuery /\ [][NextQuery]_vars

\* runs may overlap (a manual run during a scheduled one)
SpecOverlap == InitOverlap /\ [][Next]_vars

\* runs one after the other, store calls may fail
SpecFaults == InitFaults /\ [][Next]_vars

\* one call on a database that earlier runs left with rows without summary
SpecBacklog == InitBacklog /\ [][Next]_vars

\* the scheduler fires daily runs for ever on a database that earlier runs
\* left with rows without summary; no run is killed or interrupted, no other
\* caller is at work, the store answers every call
InitLive ==
    /\ InitRuns
    /\ NoQueries
    /\ NoCalls
    /\ \E n \in 0..MaxLiveOld : store = Stored(n)
    /\ opsStarted = 0
    /\ overlap = FALSE /\ bounded = FALSE /\ storeFaults = FALSE
    /\ pages = {"text"} /\ summaries = {"S1"}

\* a step of the scheduler or of the daily run it started: schedule.run_pending
\* fires the job every day, subprocess.run returns when the process exits,
\* and every call the run makes returns
LiveStep ==
    \/ run_daily_processing("scheduled")
    \/ Construct("scheduled")
    \/ FetchParse("scheduled")
    \/ FetchExists("scheduled")
    \/ FetchExtract("scheduled")
    \/ FetchSave("scheduled")
    \/ Respond("scheduled")
    \/ NewSummarize("scheduled")
    \/ NewUpdate("scheduled")
    \/ BacklogScan("scheduled")
    \/ BacklogSummarize("scheduled")
    \/ BacklogUpdate("scheduled")
    \/ DailyReport("scheduled")
    \/ MainExit("scheduled")
    \/ SchedReap

NextLive ==
    \/ FeedPublish
    \/ FeedBozo
    \/ LiveStep

SpecLive == InitLive /\ [][NextLive]_vars /\ WF_vars(LiveStep)

\* ------------------------------------------------------------- adapter calls
\* a text of n characters (no two neighbours alike, k shifts the pattern)
Text(n, k) == [i \in 1..n |-> IF (i + k) % 2 = 0 THEN "a" ELSE "b"]

\* the contents summarize_article_content is called with: short ones, and
\* ones around max_content_length
Texts ==
    {Text(n, k) : n \in (0..MaxShort) \cup
                        ((max_content_length - MaxAround)..(max_content_length + MaxAround)),
                  k \in 0..1}

EventKinds ==
    {ResponseEvent(f, t, e) : f \in BOOLEAN, t \in {None, "S1", "S2"}, e \in BOOLEAN}
      \cup {Failing}

\* the runs of at most n events
EventRuns(n) == UNION {[1..k -> EventKinds] : k \in 0..n}

\* the entries a feed can list first, the pages newspaper can parse
Entries ==
    [title : {Absent, "", "FeedTitle"}, author : {Absent, "", "FeedAuthor"},
     published : {Absent, "Mon, 06 May 2024"}, link : {Absent, "L1"}]

ParsedPages ==
    {Page(t, x, a, d) : t \in {None, "", "PageTitle"}, x \in {"", "Body"},
                        a \in {<<>>, <<"A1">>, <<"A1", "A2">>},
                        d \in {NoDate, [day |-> "2024-05-01", time |-> "10:30"]}}

\* summarize_article_content is called with a content, or fetch_latest_article
\* has parsed the feed and the page of its first entry
InitCalls ==
    /\ InitRuns
    /\ NoQueries
    /\ store = <<>>
    /\ opsStarted = 0
    /\ overlap = FALSE /\ bounded = TRUE /\ storeFaults = FALSE
    /\ pages = {"text"} /\ summaries = {"S1"}
    /\ promptContent = <<>>
    /\ consumed = 0
    /\ summaryReturned = None
    /\ savedArgs = NoSaveArgs
    /\ \/ /\ fnPc = "summarize"
          /\ \/ argContent \in Texts /\ runnerEvents \in EventRuns(1)
             \/ argContent = Text(MaxShort, 0) /\ runnerEvents \in EventRuns(MaxEvents)
          /\ latestEntry = NoEntry
          /\ article = Page(None, None, <<>>, NoDate)
       \/ /\ fnPc = "fetch"
          /\ argContent = <<>>
          /\ runnerEvents = <<>>
          /\ latestEntry \in Entries
          /\ article \in ParsedPages

\* can the session and the runner be created
SessionOutcomes == {"ok", "raise"}

\* summarize_article_content up to runner.run_async: the session, the
\* truncation, the prompt; except Exception: return None
SummarizeSubmit ==
    /\ fnPc = "summarize"
    /\ \E o \in SessionOutcomes :
         IF o = "ok"
         THEN /\ promptContent' = Truncate(argContent)
              /\ fnPc' = "run"
              /\ UNCHANGED summaryReturned
         ELSE /\ summaryReturned' = None
              /\ fnPc' = "returned"
              /\ UNCHANGED promptContent
    /\ UNCHANGED <<store, feed, pc, op, locals, ingestResult, backlogResult, ghosts, opsStarted,
                   env, queries, coord, scheduler, argContent, runnerEvents, consumed, latestEntry,
                   article, savedArgs>>

\* one turn of `async for event in runner.run_async(...)`, or its end
SummarizeConsume ==
    /\ fnPc = "run"
    /\ IF consumed = Len(runnerEvents)
       THEN /\ summaryReturned' = None
            /\ fnPc' = "returned"
            /\ UNCHANGED consumed
       ELSE LET o == OnEvent(runnerEvents[consumed + 1])
            IN /\ consumed' = consumed + 1
               /\ summaryReturned' = IF o.returns THEN o.value ELSE summaryReturned
               /\ fnPc' = IF o.returns THEN "returned" ELSE "run"
    /\ UNCHANGED <<store, feed, pc, op, locals, ingestResult, backlogResult, ghosts, opsStarted,
                   env, queries, coord, scheduler, argContent, promptContent, runnerEvents, latestEntry,
                   article, savedArgs>>

\* fetch_latest_article from the extraction to save_article, on an empty
\* table (title and article_link are NOT NULL)
FetchMerge ==
    /\ fnPc = "fetch"
    /\ LET args == SaveArgs(latestEntry, ArticleFields(article))
       IN /\ savedArgs' = args
          /\ store' = IF args.title # None /\ args.article_link # None
                      THEN Append(store, RowOf(Len(store) + 1, args))
                      ELSE store
    /\ fnPc' = "save"
    /\ UNCHANGED <<feed, pc, op, locals, ingestResult, backlogResult, ghosts, opsStarted,
                   env, queries, coord, scheduler, argContent, promptContent, runnerEvents, consumed,
                   summaryReturned, latestEntry, article>>

NextCalls ==
    \/ SummarizeSubmit
    \/ SummarizeConsume
    \/ FetchMerge

\* the adapters called on their own, on every input of the bounded sets
SpecCalls == InitCalls /\ [][NextCalls]_vars

\* ------------------------------------------------------------- properties
Events(r, ev) == {i \in 1..Len(trace[r]) : trace[r][i].ev = ev}

EventsWith(r, ev, res) == {i \in Events(r, ev) : trace[r][i].res = res}

LastEvent(r) == trace[r][Len(trace[r])]

LastIs(r, ev, res) ==
    /\ trace[r] # <<>>
    /\ LastEvent(r).ev = ev
    /\ LastEvent(r).res = res

Returned(r) == pc[r] = "ingest_ret"

PendingIds(st) == {st[i].id : i \in {j \in 1..Len(st) : WithoutSummary(st[j])}}

\* a second ingestion pass has returned, right after a first one that parsed
\* the same feed document, and no other pass ran in between or meanwhile
SecondPass(r) ==
    /\ Returned(r)
    /\ alone[r]
    /\ lastPass.valid
    /\ lastPass.feed = feedSeen[r]

\* C1 as stated: two ingestion passes in succession on an unchanged feed
\* insert at most one Article in total, and the second one reports
\* no_new_articles whatever the extractor and the summarizer answered
C1_SecondRunNoNew ==
    \A r \in Runs :
        SecondPass(r) =>
            /\ lastPass.inserted + Cardinality(inserted[r]) <= 1
            /\ ingestResult[r].status = "no_new_articles"

\* C1 amended: two ingestion passes in succession on an unchanged feed insert
\* at most one Article in total, and the second one reports no_new_articles
\* whenever the feed yields no entry or the first pass left the newest
\* entry's link in the store
C1_Idempotent ==
    \A r \in Runs :
        SecondPass(r) =>
            /\ lastPass.inserted + Cardinality(inserted[r]) <= 1
            /\ (lastPass.stored \/ ~FeedUsable(lastPass.feed))
                   => ingestResult[r].status = "no_new_articles"

C1_Witness ==
    \E r \in Runs :
        /\ SecondPass(r)
        /\ lastPass.inserted = 1
        /\ lastPass.stored
        /\ Events(r, "exists") # {}
        /\ ingestResult[r].status = "no_new_articles"

\* the step is the save_article call of r
SaveStep(r) == pc[r] = "save" /\ pc'[r] \in {"summarize", "ingest_ret"}

\* the step is the extract_article_content call of r
ExtractStep(r) == pc[r] = "extract" /\ pc'[r] \in {"save", "ingest_ret"}

\* C2: no two rows of the store share a link, and a save_article call for a
\* link that is already stored leaves the store as it is, returns no id and
\* raises nothing, whatever the interleaving of the runs
C2_LinkUnique ==
    /\ [](\A i, j \in 1..Len(store) :
              store[i].article_link = store[j].article_link => i = j)
    /\ [][\A r \in Runs :
              (SaveStep(r) /\ article_exists(store, entryLink[r]))
                  => /\ store' = store
                     /\ trace'[r][Len(trace'[r])].ev = "save"
                     /\ trace'[r][Len(trace'[r])].res = "none"
                     /\ newArticle'[r] = 0]_vars

C2_Witness ==
    \E r \in Runs :
        /\ LastIs(r, "save", "none")
        /\ article_exists(store, entryLink[r])
        /\ Returned(r)

\* C3: the extractor is called for a link only after article_exists answered
\* not-found for that link in the same pass; when the link is found, the pass
\* ends in no_new_articles without extractor or summarizer call and the row
\* count is the one the pass started with
C3_ExistsBeforeExtract ==
    \A r \in Runs :
        /\ \A i \in Events(r, "extract") :
               \E j \in EventsWith(r, "exists", "not_found") :
                   j < i /\ trace[r][j].link = trace[r][i].link
        /\ (Returned(r) /\ EventsWith(r, "exists", "found") # {})
               => /\ ingestResult[r].status = "no_new_articles"
                  /\ Events(r, "extract") = {}
                  /\ Events(r, "summarize") = {}
                  /\ Len(store) = rowsAtStart[r]

C3_Witness ==
    \E r \in Runs :
        /\ Returned(r)
        /\ LastIs(r, "exists", "found")
        /\ Len(store) > 0

\* C4: when the link is not stored and the extractor returns None, the pass
\* reports status error and inserts nothing
C4_ExtractFailureIsError ==
    \A r \in Runs :
        (Returned(r) /\ LastIs(r, "extract", "fail"))
            => /\ ingestResult[r].status = "error"
               /\ inserted[r] = {}

\* C5: a pass that reports success has inserted exactly one row, the row has
\* the link of the feed entry and a non-empty summary, the one of the report;
\* from an empty store, with an extractor and a summarizer that succeed, the
\* pass reports success
C5_SuccessMeansStored ==
    \A r \in Runs :
        Returned(r) =>
            /\ ingestResult[r].status = "success"
                   => /\ Cardinality(inserted[r]) = 1
                      /\ Len(store) = rowsAtStart[r] + 1
                      /\ \A id \in inserted[r] :
                             /\ store[id].article_link = feedSeen[r].entries[1]
                             /\ Truthy(store[id].ai_summary)
                             /\ store[id].ai_summary = ingestResult[r].summary
            /\ (/\ rowsAtStart[r] = 0
                /\ EventsWith(r, "extract", "ok") # {}
                /\ EventsWith(r, "summarize", "ok") # {})
                   => ingestResult[r].status = "success"

C5_Witness ==
    \E r \in Runs :
        /\ Returned(r)
        /\ rowsAtStart[r] = 0
        /\ ingestResult[r].status = "success"
        /\ Len(store) = 1
        /\ store[1].ai_summary = "S2"

\* C6: when the pass inserted a row and the summarizer returned None, the
\* pass reports error "Failed to generate summary", the row stays without a
\* summary and is among the rows the backlog scan selects
C6_FailedSummaryStaysPending ==
    \A r \in Runs :
        (Returned(r) /\ inserted[r] # {} /\ LastIs(r, "summarize", "fail"))
            => /\ ingestResult[r] = Failure("Failed to generate summary")
               /\ \A id \in inserted[r] :
                      /\ id \in 1..Len(store)
                      /\ store[id].ai_summary = None
                      /\ id \in PendingIds(store)

C6_Witness ==
    \E r \in Runs :
        /\ Returned(r)
        /\ inserted[r] # {}
        /\ LastIs(r, "summarize", "fail")

\* C7: when the feed cannot be parsed or has no entries, the pass ends in
\* no_new_articles, calls neither the extractor nor the summarizer, reads and
\* writes nothing in the store and raises nothing
C7_UnusableFeed ==
    \A r \in Runs :
        (Returned(r) /\ (feedSeen[r].bozo \/ feedSeen[r].entries = <<>>))
            => /\ ingestResult[r].status = "no_new_articles"
               /\ Events(r, "extract") = {}
               /\ Events(r, "summarize") = {}
               /\ Events(r, "save") = {}
               /\ Events(r, "update") = {}
               /\ Len(store) = rowsAtStart[r]
               /\ \A i \in 1..Len(trace[r]) : trace[r][i].res # Raised

C7_Witness ==
    \E r \in Runs :
        /\ Returned(r)
        /\ feedSeen[r].bozo
        /\ feedSeen[r].entries # <<>>
        /\ ~article_exists(store, feedSeen[r].entries[1])

\* C8: an ingestion pass inserts at most one row, and every link it checks,
\* extracts or inserts is the link of the first entry of the feed it parsed
C8_OnlyNewestEntry ==
    \A r \in Runs :
        /\ Cardinality(inserted[r]) <= 1
        /\ \A i \in Events(r, "exists") \cup Events(r, "extract") \cup Events(r, "save") :
               trace[r][i].link = feedSeen[r].entries[1]
        /\ \A id \in inserted[r] : store[id].article_link = feedSeen[r].entries[1]

C8_Witness ==
    \E r \in Runs :
        /\ Returned(r)
        /\ Len(feedSeen[r].entries) = 2
        /\ feedSeen[r].entries[1] # feedSeen[r].entries[2]
        /\ ~article_exists(store, feedSeen[r].entries[2])
        /\ Cardinality(inserted[r]) = 1

\* C9: every row is either without summary (null or empty) or with a
\* non-empty summary, never both, and the rows a backlog pass iterates over
\* are exactly the rows that had no non-empty summary when it scanned
C9_Partition ==
    /\ \A i \in 1..Len(store) : WithoutSummary(store[i]) # WithSummary(store[i])
    /\ \A r \in Runs :
           pc[r] \in {"loop", "bl_update", "backlog_ret"}
               => /\ {articles[r][i] : i \in 1..Len(articles[r])} = pendingAtScan[r]
                  /\ Len(articles[r]) = Cardinality(pendingAtScan[r])

C9_Witness ==
    \E r \in Runs :
        /\ pc[r] = "loop"
        /\ Len(articles[r]) = 1
        /\ Len(store) = 2

\* C10: when the summarizer succeeds on every row of a backlog pass over N
\* rows without summary, the pass reports processed_count = total_articles
\* = N and no row is left without summary
C10_BacklogConverges ==
    \A r \in Runs :
        (pc[r] = "backlog_ret" /\ EventsWith(r, "bl_summarize", "fail") = {})
            => /\ backlogResult[r].processed_count = Cardinality(pendingAtScan[r])
               /\ backlogResult[r].total_articles = Cardinality(pendingAtScan[r])
               /\ backlogResult[r].error = None
               /\ \A id \in pendingAtScan[r] : WithSummary(store[id])
               /\ PendingIds(store) = {}

C10_Witness ==
    \E r \in Runs :
        /\ pc[r] = "backlog_ret"
        /\ EventsWith(r, "bl_summarize", "fail") = {}
        /\ Cardinality(pendingAtScan[r]) = 2
        /\ backlogResult[r].processed_count = 2

\* ids of the rows on which the summarizer failed in the current pass
FailedIds(r) == {trace[r][i].id : i \in EventsWith(r, "bl_summarize", "fail")}

\* ids of the rows the current pass called the summarizer for, in call order
SummarizedIds(r) ==
    [k \in 1..Cardinality(Events(r, "bl_summarize")) |->
        trace[r][CHOOSE i \in Events(r, "bl_summarize") :
                     Cardinality({j \in Events(r, "bl_summarize") : j <= i}) = k].id]

\* C11: a backlog pass over N rows without summary on which the summarizer
\* fails exactly for the rows of S reports processed_count = N - |S| and
\* total_articles = N, every row outside S has a summary afterwards and
\* every row of S is left as it was, wherever the rows of S are in the scan
C11_PartialBacklog ==
    \A r \in Runs :
        pc[r] = "backlog_ret"
            => /\ backlogResult[r].error = None
               /\ backlogResult[r].total_articles = Cardinality(pendingAtScan[r])
               /\ backlogResult[r].processed_count =
                      Cardinality(pendingAtScan[r]) - Cardinality(FailedIds(r))
               /\ FailedIds(r) \subseteq pendingAtScan[r]
               /\ \A id \in pendingAtScan[r] \ FailedIds(r) : WithSummary(store[id])
               /\ \A id \in FailedIds(r) :
                      store[id] = Row(id, store[id].article_link, store[id].content)

\* three rows without summary, the summarizer failed on the second one only:
\* the pass reports processed_count 2 of total_articles 3
C11_Witness ==
    \E r \in Runs :
        /\ pc[r] = "backlog_ret"
        /\ Len(articles[r]) = 3
        /\ FailedIds(r) = {articles[r][2]}
        /\ backlogResult[r] = Counted(2, 3)

\* the summarizer failed on the first row of the scan and not on a later one
C11_WitnessFirst ==
    \E r \in Runs :
        /\ pc[r] = "backlog_ret"
        /\ Len(articles[r]) >= 2
        /\ articles[r][1] \in FailedIds(r)
        /\ \E k \in 2..Len(articles[r]) : articles[r][k] \notin FailedIds(r)
        /\ backlogResult[r].processed_count = Len(articles[r]) - 1

\* the summarizer failed on a later row of the scan and not on the first one
C11_WitnessLast ==
    \E r \in Runs :
        /\ pc[r] = "backlog_ret"
        /\ Len(articles[r]) >= 2
        /\ articles[r][1] \notin FailedIds(r)
        /\ articles[r][Len(articles[r])] \in FailedIds(r)

\* C12: a backlog pass calls the summarizer for the rows of its scan one
\* after the other, each row once, failed or not, goes on after a failure
\* to the end of the scan, and ends by returning its counts
C12_OncePerRow ==
    \A r \in Runs :
        /\ pc[r] \in {"loop", "bl_update", "backlog_ret"}
              => /\ Len(SummarizedIds(r)) <= Len(articles[r])
                 /\ SummarizedIds(r) = SubSeq(articles[r], 1, Len(SummarizedIds(r)))
                 /\ Len(SummarizedIds(r)) =
                        (IF pc[r] = "loop" THEN idx[r] - 1
                         ELSE IF pc[r] = "bl_update" THEN idx[r] ELSE Len(articles[r]))
        /\ pc[r] = "backlog_ret"
              => /\ SummarizedIds(r) = articles[r]
                 /\ backlogResult[r].error = None
                 /\ backlogResult[r].processed_count \in 0..Len(articles[r])
                 /\ backlogResult[r].total_articles = Len(articles[r])

\* the pass went on to the second row after the summarizer failed on the first
C12_Witness ==
    \E r \in Runs :
        /\ pc[r] = "backlog_ret"
        /\ Len(articles[r]) = 2
        /\ FailedIds(r) = {articles[r][1], articles[r][2]}
        /\ Cardinality(Events(r, "bl_summarize")) = 2

\* C13 as stated: once a row has a non-empty summary, no later step of any
\* run, overlapping or not, writes the summary of that row again
C13_SummaryWrittenOnce ==
    [][\A i \in 1..Len(store) :
           WithSummary(store[i]) => store'[i].ai_summary = store[i].ai_summary]_vars

\* the runs whose current pass called the extractor for the link
Extractors(l) == {r \in Runs : \E i \in Events(r, "extract") : trace[r][i].link = l}

\* C15 as stated: over any sequence or interleaving of runs, the extractor
\* is never called for a link that is in the store, and a link that is
\* stored was extracted by at most one run
C15_ExtractedAtMostOnce ==
    /\ [](\A i \in 1..Len(store) : Cardinality(Extractors(store[i].article_link)) <= 1)
    /\ [][\A r \in Runs :
             ExtractStep(r)
                 => ~article_exists(store, entryLink[r])]_vars

\* C15 amended: a run during which no other run is active never calls the
\* extractor for a link that is in the store, and in any interleaving at
\* most one of the runs that extracted a link has inserted it
C15_ExtractedOnceWhenAlone ==
    /\ [](\A l \in Links :
             Cardinality({r \in Extractors(l) :
                             \E id \in inserted[r] : store[id].article_link = l}) <= 1)
    /\ [][\A r \in Runs :
             (ExtractStep(r) /\ alone[r])
                 => ~article_exists(store, entryLink[r])]_vars

\* a run with no other run active has extracted a new link while another
\* link was stored
C15_Witness ==
    \E r \in Runs :
        /\ pc[r] = "save"
        /\ alone[r]
        /\ Len(store) = 1
        /\ ~article_exists(store, entryLink[r])

\* the ingestion pass of r has returned after its insert gave no id
InsertRejected(r) ==
    /\ Returned(r)
    /\ trace[r] # <<>>
    /\ LastEvent(r).ev = "save"
    /\ inserted[r] = {}

\* C14: when the insert of a pass is rejected because an overlapping run
\* stored the link after the pass's existence check, the store holds the
\* link once, and the pass ends in no_new_articles, with nothing raised and
\* without a summarizer call
C14_RejectedInsertIsNoNew ==
    \A r \in Runs :
        InsertRejected(r)
            => /\ Cardinality({i \in 1..Len(store) :
                                  store[i].article_link = entryLink[r]}) = 1
               /\ LastEvent(r).res = "none"
               /\ ingestResult[r].status = "no_new_articles"
               /\ \A i \in 1..Len(trace[r]) : trace[r][i].res # Raised
               /\ Events(r, "summarize") = {}
               /\ Events(r, "update") = {}
               /\ newArticle[r] = 0

\* both runs found the link absent, the other run's insert succeeded
C14_Witness ==
    \E r \in Runs : \E q \in Runs \ {r} :
        /\ InsertRejected(r)
        /\ EventsWith(r, "exists", "not_found") # {}
        /\ EventsWith(q, "exists", "not_found") # {}
        /\ \E id \in inserted[q] : store[id].article_link = entryLink[r]

\* the calls of the ingestion phase and of the backlog phase
IngestionEvents == {"parse", "exists", "extract", "save", "summarize", "update"}

BacklogEvents == {"scan", "bl_summarize", "bl_update"}

\* C16: a daily run starts with the ingestion phase, every call of the
\* backlog phase comes after every call of the ingestion phase and after
\* ingestion has returned, the backlog phase can start whatever ingestion
\* returned, and no report is made without it
C16_IngestionThenBacklog ==
    \A r \in Runs :
        op[r] = "daily" =>
            /\ (trace[r] # <<>> /\ trace[r][1].ev \notin {"construct", "interrupt"})
                   => trace[r][1].ev = "parse"
            /\ \A i, j \in 1..Len(trace[r]) :
                   (trace[r][i].ev \in IngestionEvents /\ trace[r][j].ev \in BacklogEvents)
                       => i < j
            /\ Events(r, "scan") # {}
                   => ingestResult[r].status \in {"success", "no_new_articles", "error"}
            /\ pc[r] = "ingest_ret" => ENABLED BacklogScan(r)
            /\ report[r] # NoReport => Cardinality(Events(r, "scan")) = 1

\* a daily run whose ingestion phase ended in error has run its backlog phase
C16_Witness ==
    \E r \in Runs :
        /\ op[r] = "daily"
        /\ pc[r] = "report_ret"
        /\ ingestResult[r].status = "error"
        /\ Events(r, "bl_summarize") # {}

\* C17: run_daily_process always returns a report; an exception raised by
\* its own statements after the phases is caught by its except clause and
\* returned as a report with status error and the exception's message, and
\* the exceptions of the store calls never leave the two phases
C17_CoordinatorCatchesAll ==
    \A r \in Runs :
        (op[r] = "daily" /\ pc[r] = "report_ret") =>
            /\ report[r] # NoReport
            /\ report[r].status \in {"success", "error"}
            /\ EventsWith(r, "report", Raised) # {}
                   => /\ report[r].status = "error"
                      /\ report[r].error = "exception"
            /\ ingestResult[r] # NoResult
            /\ backlogResult[r] # NoBacklogResult

\* an exception raised during report assembly has become an error report
C17_Witness ==
    \E r \in Runs :
        /\ op[r] = "daily"
        /\ pc[r] = "report_ret"
        /\ EventsWith(r, "report", Raised) # {}
        /\ report[r] = ErrorReport("exception")

\* a store call raised in each phase and run_daily_process returned a report
C17_WitnessPhases ==
    \E r \in Runs :
        /\ op[r] = "daily"
        /\ pc[r] = "report_ret"
        /\ EventsWith(r, "update", Raised) # {}
        /\ EventsWith(r, "scan", Raised) # {}

\* the calls of store methods in the trace of r
StoreCalls(r) ==
    {i \in 1..Len(trace[r]) : trace[r][i].ev \in {"exists", "save", "update", "scan", "bl_update"}}

\* C18 as stated: a daily run during which the store is unreachable, every
\* store call it makes raising, ends with a report of status error and a
\* non-zero exit code
C18_StoreOutageIsError ==
    \A r \in Runs :
        (/\ op[r] = "daily"
         /\ pc[r] = "exited"
         /\ report[r] # NoReport
         /\ StoreCalls(r) # {}
         /\ \A i \in StoreCalls(r) : trace[r][i].res = Raised)
            => /\ report[r].status = "error"
               /\ exitCode[r] # 0

\* C19: the daily_runner.py process exits with 0 exactly when the report's
\* status is success, with 1 when the status is error or when constructing
\* the processor raised, with 130 when the user interrupted it, and with no
\* other code
C19_ExitCodes ==
    \A r \in Runs :
        IF pc[r] = "exited"
        THEN /\ exitCode[r] \in {0, 1, ExitInterrupted}
             /\ exitCode[r] = 0 <=> report[r].status = "success"
             /\ report[r].status = "error" => exitCode[r] = 1
             /\ Events(r, "construct") # {} => exitCode[r] = 1
             /\ exitCode[r] = ExitInterrupted <=> Events(r, "interrupt") # {}
             /\ exitCode[r] = 1
                    => (report[r].status = "error" \/ Events(r, "construct") # {})
        ELSE exitCode[r] = NoExit

\* the process has exited with 1 after an error report
C19_Witness ==
    \E r \in Runs :
        /\ pc[r] = "exited"
        /\ report[r].status = "error"
        /\ exitCode[r] = 1

\* the process has exited with 130, with 1 without a report, and with 0
C19_WitnessInterrupted == \E r \in Runs : pc[r] = "exited" /\ exitCode[r] = ExitInterrupted

C19_WitnessConstruct ==
    \E r \in Runs : pc[r] = "exited" /\ exitCode[r] = 1 /\ report[r] = NoReport

C19_WitnessSuccess ==
    \E r \in Runs : pc[r] = "exited" /\ exitCode[r] = 0 /\ report[r].status = "success"

\* the lines run_daily_processing logs when a run has failed
FailureLines == {"failed", "timeout", "error"}

\* C20: the scheduler leaves subprocess.run only to its polling loop, with
\* the outcome logged; a run that cannot be launched is logged and leaves
\* it polling; it is stopped only by the user; and after a failed run the
\* next trigger can start a run again
C20_SchedulerSurvivesRuns ==
    /\ [](sched = "stopped" => schedLog = "stopped by user")
    /\ []((sched = "polling" /\ schedLog \in FailureLines /\ MayStart("scheduled"))
              => ENABLED run_daily_processing("scheduled"))
    /\ [][/\ (sched = "waiting" /\ sched' # "waiting")
                 => (sched' = "polling" /\ schedLog' \in {"completed", "failed", "timeout"})
          /\ (sched = "waiting" /\ sched' # "waiting" /\ exitCode["scheduled"] \notin {NoExit, 0})
                 => schedLog' = "failed"
          /\ (sched = "waiting" /\ sched' # "waiting" /\ exitCode["scheduled"] = NoExit)
                 => schedLog' = "timeout"
          /\ (schedLog' = "error" /\ schedLog # "error") => sched' = "polling"]_vars

\* the run was killed at the timeout, the scheduler polls and can fire again
C20_Witness ==
    /\ sched = "polling"
    /\ schedLog = "timeout"
    /\ ENABLED run_daily_processing("scheduled")

\* the same after a non-zero exit code and after a failed launch
C20_WitnessFailed ==
    /\ sched = "polling"
    /\ schedLog = "failed"
    /\ ENABLED run_daily_processing("scheduled")

C20_WitnessLaunch ==
    /\ sched = "polling"
    /\ schedLog = "error"
    /\ ENABLED run_daily_processing("scheduled")

\* C21: at most one subprocess started by the scheduler exists at any time.
\* While a daily run is alive the scheduler waits in subprocess.run and
\* cannot start a firing; when it is back in its polling loop the previous
\* subprocess has exited or was killed by the timeout; no other caller is
\* a subprocess of the scheduler.
C21_OneSubprocess ==
    /\ (op["scheduled"] = "daily" /\ Active("scheduled")) <=> sched = "waiting"
    /\ sched = "waiting" => ~ENABLED run_daily_processing("scheduled")
    /\ op["manual"] # "daily"

\* the scheduler is waiting on a run that is in the middle of its work
C21_Witness == sched = "waiting" /\ pc["scheduled"] = "summarize" /\ opsStarted >= 2

\* a run was killed by the timeout and the next firing can start
C21_WitnessKilled ==
    /\ schedLog = "timeout"
    /\ store # <<>>
    /\ ENABLED run_daily_processing("scheduled")

\* C22: a run killed by the timeout at any point between two of its steps
\* leaves a consistent store: links are unique, every row is either pending
\* or complete, and every row the killed run inserted and left without
\* summary is among the rows the next backlog pass reads.
C22_KillLeavesConsistentStore ==
    /\ \A i, j \in 1..Len(store) : store[i].article_link = store[j].article_link => i = j
    /\ \A i \in 1..Len(store) : WithoutSummary(store[i]) # WithSummary(store[i])
    /\ \A id \in killedRows :
          /\ id \in 1..Len(store)
          /\ \/ WithoutSummary(store[id])
             \/ \E r \in Runs : \E i \in 1..Len(articles[r]) : articles[r][i] = id
    /\ \A r \in Runs : pc[r] \in {"loop", "bl_update", "backlog_ret"} =>
          killedRows \subseteq {articles[r][i] : i \in 1..Len(articles[r])}

\* the pass after a kill reads two rows, the second left by the killed run
C22_Witness ==
    \E r \in Runs :
        /\ pc[r] = "loop"
        /\ Len(articles[r]) = 2
        /\ killedRows = {articles[r][2]}

\* a run was killed between its insert and its summary
C22_WitnessKilled ==
    /\ schedLog = "timeout"
    /\ sched = "polling"
    /\ killedRows # {}
    /\ \A r \in Runs : ~Active(r)

\* C24: the summarizer places the content in the request unchanged when it
\* has at most 8000 characters, and otherwise its first 8000 characters
\* followed by the marker "..."; the content of the request is never longer
\* than 8000 characters plus the marker.
C24_Truncation ==
    fnPc = "run" =>
        /\ Len(argContent) <= 8000 => promptContent = argContent
        /\ Len(argContent) > 8000 =>
              /\ Len(promptContent) = 8000 + 3
              /\ \A i \in 1..8000 : promptContent[i] = argContent[i]
              /\ \A i \in 8001..8003 : promptContent[i] = "."
        /\ Len(promptContent) <= 8000 + Len(Marker)

\* a content one character too long was cut
C24_Witness ==
    /\ fnPc = "run"
    /\ Len(argContent) = 8001
    /\ Len(promptContent) = 8003

\* a content of exactly 8000 characters was submitted as it is
C24_WitnessAtMax ==
    /\ fnPc = "run"
    /\ Len(argContent) = 8000
    /\ promptContent = argContent

\* the first event of the run that satisfies P, 0 if there is none
FirstEvent(P(_)) ==
    IF \E i \in 1..Len(runnerEvents) : P(runnerEvents[i])
    THEN CHOOSE i \in 1..Len(runnerEvents) :
             P(runnerEvents[i]) /\ \A j \in 1..(i - 1) : ~P(runnerEvents[j])
    ELSE 0

IsFinal(e) == e.final

\* a final event that carries a text or an escalation
Decides(e) == e.final /\ (e.text # None \/ e.escalate)

\* summarize_article_content has run its loop and returned, and the runner
\* raised nothing up to event i (up to its end, for i = 0)
LoopReturned(i) ==
    /\ fnPc = "returned"
    /\ consumed > 0 \/ runnerEvents = <<>>
    /\ \A j \in 1..(IF i = 0 THEN Len(runnerEvents) ELSE i) : ~runnerEvents[j].raises

Escalated(evs) ==
    \E i \in 1..Len(evs) :
        /\ evs[i].final /\ evs[i].text = None /\ evs[i].escalate
        /\ \A j \in 1..(i - 1) : ~evs[j].final /\ ~evs[j].raises

\* the last thing run r did was to summarize, and the answer was an escalation
JustEscalated(r) ==
    /\ trace[r] # <<>>
    /\ LastEvent(r).ev \in {"summarize", "bl_summarize"}
    /\ ~response[r].sent
    /\ Escalated(response[r].events)

\* C26: when the final response event carries an escalation instead of a
\* text, summarize_article_content returns None and the caller takes it as
\* a failed summarization: it makes no update call, the row keeps no
\* summary, and ingestion returns the error "Failed to generate summary".
C26_EscalationIsFailure ==
    \A r \in Runs :
        /\ JustEscalated(r) =>
              /\ summarize_article_content(response[r].events) = None
              /\ LastEvent(r).res = "fail"
              /\ summary[r] = None
              /\ pc[r] \notin {"update", "bl_update"}
              /\ WithoutSummary(store[LastEvent(r).id])
              /\ LastEvent(r).ev = "summarize" =>
                    ingestResult[r] = Failure("Failed to generate summary")
        /\ \A i \in 1..(Len(trace[r]) - 1) :
              (trace[r][i].ev \in {"summarize", "bl_summarize"} /\ trace[r][i].res = "fail")
                  => trace[r][i + 1].ev \notin {"update", "bl_update"}

\* a backlog pass got an escalation for its only row and returned
C26_Witness ==
    \E r \in Runs :
        /\ JustEscalated(r)
        /\ pc[r] = "backlog_ret"
        /\ backlogResult[r] = Counted(0, 1)

\* ingestion got an escalation for the article it inserted
C26_WitnessNew ==
    \E r \in Runs :
        /\ JustEscalated(r)
        /\ pc[r] = "ingest_ret"
        /\ inserted[r] # {}

\* the runner (or the creation of the session) raised before any event made
\* summarize_article_content return
TransportFailed(evs) ==
    \E i \in 1..Len(evs) : evs[i].raises /\ \A j \in 1..(i - 1) : ~OnEvent(evs[j]).returns

\* C27: no adapter raises into its caller.  When the feed is unusable, the
\* store fails inside fetch_latest_article, the page cannot be extracted or
\* the summarizer's session or transport fails, the adapter returns None:
\* ingestion takes the branch of a fetch that found nothing or of a summary
\* that failed, the backlog pass goes on to its next row, and only a store
\* call the agent makes itself ends a pass with an exception.
C27_AdaptersReturnNone ==
    \A r \in Runs :
        /\ (pc[r] = "ingest_ret" /\ LastEvent(r).ev \in {"parse", "exists", "extract", "save"})
              => ingestResult[r] = NoNewArticles
        /\ (pc[r] = "ingest_ret" /\ ingestResult[r].message = "exception")
              => LastIs(r, "update", Raised)
        /\ (pc[r] = "backlog_ret" /\ backlogResult[r].error # None)
              => (LastIs(r, "scan", Raised) \/ LastIs(r, "bl_update", Raised))
        /\ (/\ trace[r] # <<>>
            /\ LastEvent(r).ev \in {"summarize", "bl_summarize"}
            /\ ~response[r].sent
            /\ TransportFailed(response[r].events))
              => /\ LastEvent(r).res = "fail"
                 /\ summary[r] = None
                 /\ pc[r] \in {"ingest_ret", "loop", "backlog_ret"}
                 /\ pc[r] = "ingest_ret" =>
                       ingestResult[r] = Failure("Failed to generate summary")
                 /\ pc[r] = "backlog_ret" => backlogResult[r].error = None

\* the store failed inside fetch_latest_article and ingestion reported that
\* there is nothing new
C27_Witness ==
    \E r \in Runs :
        /\ pc[r] = "ingest_ret"
        /\ LastIs(r, "exists", Raised) \/ LastIs(r, "save", Raised)
        /\ ingestResult[r] = NoNewArticles

\* the transport failed during a backlog pass, which went on to its next row
C27_WitnessTransport ==
    \E r \in Runs :
        /\ pc[r] = "loop"
        /\ LastIs(r, "bl_summarize", "fail")
        /\ ~response[r].sent
        /\ TransportFailed(response[r].events)

\* the page could not be extracted
C27_WitnessExtract ==
    \E r \in Runs :
        /\ pc[r] = "ingest_ret"
        /\ LastIs(r, "extract", "fail")
        /\ ingestResult[r] = NoNewArticles

\* C28: title, author and publish_date of a newly inserted row are the
\* values the feed entry declares where it has the key, and otherwise the
\* values of the extractor, which fall back to "No Title", "Unknown Author"
\* and the current date: the stored title is never null, and the author
\* follows the chain feed author, joined extractor authors, "Unknown Author".
C28_FieldFallbacks ==
    fnPc = "save" =>
        /\ Len(store) = 1
        /\ store[1].title =
              (IF latestEntry.title # Absent THEN latestEntry.title
               ELSE IF article.title \in {None, ""} THEN "No Title" ELSE article.title)
        /\ store[1].author =
              (IF latestEntry.author # Absent THEN latestEntry.author
               ELSE IF article.authors = <<"A1", "A2">> THEN "A1, A2"
               ELSE IF article.authors = <<"A1">> THEN "A1"
               ELSE "Unknown Author")
        /\ store[1].publish_date =
              (IF latestEntry.published # Absent THEN latestEntry.published
               ELSE IF article.publish_date # NoDate THEN "2024-05-01" ELSE "today")
        /\ store[1].title \notin {None, Absent}
        /\ store[1].author \notin {None, Absent}

\* the feed declares no title and no author, the page has two authors and no
\* title
C28_Witness ==
    /\ fnPc = "save"
    /\ latestEntry.title = Absent /\ latestEntry.author = Absent
    /\ article.title = None
    /\ Len(store) = 1
    /\ store[1].title = "No Title"
    /\ store[1].author = "A1, A2"

\* the feed declares a title and an author, the page others
C28_WitnessFeed ==
    /\ fnPc = "save"
    /\ article.title = "PageTitle" /\ article.authors = <<"A1">>
    /\ Len(store) = 1
    /\ store[1].title = "FeedTitle"
    /\ store[1].author = "FeedAuthor"

\* C29 as stated: when the extractor yields no body text for a new entry,
\* ingestion does not report success and requests no summary for it.
C29_NoTextIsFailure ==
    \A r \in Runs :
        articleData[r].content = ArticleFields(PageOf("no_text")).content =>
            /\ ingestResult[r].status # "success"
            /\ Events(r, "summarize") = {}
            /\ ~(pc[r] = "summarize" /\ response[r].sent)

\* a step writes the row that run r is giving a summary
Writes(r, id) ==
    /\ \/ pc[r] = "update" /\ newArticle[r] = id
       \/ pc[r] = "bl_update" /\ articles[r][idx[r]] = id
    /\ pc'[r] \in {"ingest_ret", "loop", "backlog_ret"}

\* C30: after its insert a row keeps its id, title, author, publish_date,
\* link, content and created_at and is never deleted; a step that writes a
\* summary changes ai_summary and updated_at of the one row with the given
\* id and no other row, so the number of rows never decreases.
C30_RowsImmutable ==
    [][/\ Len(store') >= Len(store)
       /\ \A i \in 1..Len(store) :
             /\ store'[i] = [store[i] EXCEPT !.ai_summary = store'[i].ai_summary,
                                             !.updated_at = store'[i].updated_at]
             /\ store'[i] # store[i] => \E r \in Runs : Writes(r, store[i].id)
       /\ Cardinality({i \in 1..Len(store) : store'[i] # store[i]}) <= 1]_vars

\* one row has been given a summary while another, older one has none
C30_Witness ==
    /\ Len(store) = 2
    /\ store[2].updated_at = 1 /\ WithSummary(store[2])
    /\ store[1].updated_at = 0 /\ store[1].ai_summary = None
    /\ store[1].created_at = 0 /\ store[2].created_at = 0

\* the most rows the table can hold
MaxRows == MaxLiveOld + Cardinality(Links)

\* the id of the row run r is about to summarize
Summarizing(r) == IF pc[r] = "summarize" THEN newArticle[r] ELSE articles[r][idx[r]]

\* the collaborator answers the request for row id with a text
RespondOk(id) ==
    \E r \in Runs :
        /\ Respond(r)
        /\ Summarizing(r) = id
        /\ Truthy(summarize_article_content(response'[r].events))

\* C23: the scheduler keeps firing runs and the store answers.  For every
\* row: if the summarizer, asked again and again for that row, eventually
\* answers with a text, then the row, once inserted, eventually has a
\* non-empty summary, however often it failed before and whether or not the
\* summarizer ever succeeds on any other row.
C23_EventualCompletion ==
    \A id \in 1..MaxRows :
        SF_vars(RespondOk(id)) => ((Len(store) >= id) ~> (Len(store) >= id /\ WithSummary(store[id])))

\* a pass failed on one row and went on to complete a later one
C23_Witness ==
    \E a, b \in 1..Len(store) :
        /\ a < b
        /\ pc["scheduled"] = "backlog_ret"
        /\ \E i \in EventsWith("scheduled", "bl_summarize", "fail") :
              trace["scheduled"][i].id = a
        /\ \E i \in EventsWith("scheduled", "bl_update", "ok") : trace["scheduled"][i].id = b
        /\ WithoutSummary(store[a]) /\ WithSummary(store[b])

\* C32: complete is absorbing.  Both update calls are made with a non-empty
\* summarizer result only (an empty text is a failure), so no step writes a
\* null or empty summary, and a row that has a summary has one after every
\* step of every interleaving of runs.
C32_CompleteIsAbsorbing ==
    [][/\ \A i \in 1..Len(store) :
             /\ WithSummary(store[i]) => (Len(store') >= i /\ WithSummary(store'[i]))
             /\ store'[i].ai_summary # store[i].ai_summary =>
                   store'[i].ai_summary \notin {None, ""}
       /\ \A r \in Runs :
             pc'[r] \in {"update", "bl_update"} =>
                 summary'[r] \notin {None, ""}]_vars

\* the summarizer answered with the empty text for a row that another run
\* has completed in the meantime
C32_Witness ==
    \E r \in Runs :
        /\ pc[r] \in {"loop", "backlog_ret"}
        /\ LastIs(r, "bl_summarize", "fail")
        /\ ~response[r].sent
        /\ response[r].events = <<ResponseEvent(TRUE, "", FALSE)>>
        /\ WithSummary(store[LastEvent(r).id])

\* a phase of the daily run r ended in a failure outcome
PhaseFailed(r) == ingestResult[r].status = "error" \/ backlogResult[r].error # None

\* C33: the report of a daily run has status error if and only if an
\* exception reached the except clause of run_daily_process.  A failure
\* outcome of a phase (ingestion result error, backlog result with error) is
\* embedded in the report and leaves its status success: the process exits
\* with code 0 and the scheduler logs the run as completed.
C33_PhaseFailureIsSuccess ==
    /\ [](\A r \in Runs :
            (op[r] = "daily" /\ pc[r] \in {"report_ret", "exited"} /\ report[r] # NoReport) =>
                /\ report[r].status = "error" <=> EventsWith(r, "report", Raised) # {}
                /\ (PhaseFailed(r) /\ EventsWith(r, "report", Raised) = {}) =>
                      /\ report[r].status = "success"
                      /\ report[r].new_articles = ingestResult[r]
                      /\ report[r].backlog_processing = backlogResult[r]
                      /\ pc[r] = "exited" => exitCode[r] = 0)
    /\ [][(/\ sched = "waiting" /\ sched' = "polling"
           /\ pc["scheduled"] = "exited"
           /\ report["scheduled"].status = "success")
              => schedLog' = "completed"]_vars

\* both phases of a run failed and the process exited with code 0
C33_Witness ==
    \E r \in Runs :
        /\ pc[r] = "exited"
        /\ exitCode[r] = 0
        /\ report[r].new_articles.status = "error"
        /\ report[r].backlog_processing.error # None

\* the step of run r in which ev logs that update_article_summary returned False
SaveFailed(r, ev, link, id) ==
    trace'[r] = Append(trace[r], Event(ev, link, id, "false"))

\* C36: when the summarizer succeeded and update_article_summary returns
\* False, the row stays pending and unchanged; the ingestion run returns
\* status error with 'Failed to save summary', and a backlog pass does not
\* count the row and goes on with the next row (or returns its counts when
\* the row was the last one).
C36_SaveFailureKeepsPending ==
    [][\A r \in Runs :
         /\ (pc[r] = "update" /\ SaveFailed(r, "update", entryLink[r], newArticle[r])) =>
               /\ Truthy(summary[r])
               /\ store' = store
               /\ WithoutSummary(store'[newArticle[r]])
               /\ ingestResult'[r] = Failure("Failed to save summary")
               /\ ingestResult'[r].status = "error"
         /\ (pc[r] = "bl_update" /\ SaveFailed(r, "bl_update", None, articles[r][idx[r]])) =>
               /\ Truthy(summary[r])
               /\ store' = store
               /\ WithoutSummary(store'[articles[r][idx[r]]])
               /\ processedCount'[r] = processedCount[r]
               /\ IF idx[r] < Len(articles[r])
                  THEN pc'[r] = "loop" /\ idx'[r] = idx[r] + 1
                  ELSE /\ pc'[r] = "backlog_ret"
                       /\ backlogResult'[r] = Counted(processedCount[r], Len(articles[r]))]_vars

\* a backlog pass failed to save the summary of a row and went on with the
\* next row, after the ingestion of the same run failed to save one too
C36_Witness ==
    \E r \in Runs :
        /\ pc[r] = "loop"
        /\ idx[r] > 1
        /\ LastIs(r, "bl_update", "false")
        /\ WithoutSummary(store[LastEvent(r).id])
        /\ EventsWith(r, "update", "false") # {}
        /\ ingestResult[r] = Failure("Failed to save summary")

\* the requests of run r to the summarizer for the content of row id
Submissions(r, id) ==
    {i \in Events(r, "summarize") \cup Events(r, "bl_summarize") : trace[r][i].id = id}

\* the rows the backlog scan of run r returned
ScanRows(r) == {articles[r][i] : i \in 1..Len(articles[r])}

\* rows whose immediate summarization and save succeeded in run r
IngestedWhole(r) == {trace[r][i].id : i \in EventsWith(r, "update", "ok")}

\* rows that run r inserted and whose summarization or summary save failed
IngestedPending(r) ==
    {trace[r][i].id : i \in EventsWith(r, "summarize", "fail")
                            \cup EventsWith(r, "update", "false")
                            \cup EventsWith(r, "update", Raised)}

\* the backlog phase of the daily run r has returned
BacklogReturned(r) == op[r] = "daily" /\ pc[r] \in {"backlog_ret", "report_ret"}

\* C34 as stated: in a daily run whose backlog phase returned, a row inserted
\* and summarized by the ingestion phase is not in the backlog scan and was
\* submitted once; a row whose summarization or save failed was pending at
\* the scan and was submitted twice; no row was submitted more than twice.
C34_FailedIsSubmittedTwice ==
    \A r \in Runs : BacklogReturned(r) =>
        /\ \A n \in IngestedWhole(r) :
              n \notin ScanRows(r) /\ Cardinality(Submissions(r, n)) = 1
        /\ \A n \in IngestedPending(r) :
              /\ n \in pendingAtScan[r]
              /\ n \in ScanRows(r)
              /\ Cardinality(Submissions(r, n)) = 2
        /\ \A n \in 1..Len(store) : Cardinality(Submissions(r, n)) <= 2

\* C34 amended: the second submission happens when the backlog pass returns
\* its counts; when the scan, or the save of an earlier row, raises, the pass
\* returns an error and the row whose summarization failed is submitted once.
C34_FailedIsSubmittedTwiceIfPassCounts ==
    \A r \in Runs : BacklogReturned(r) =>
        /\ \A n \in IngestedWhole(r) :
              n \notin ScanRows(r) /\ Cardinality(Submissions(r, n)) = 1
        /\ \A n \in IngestedPending(r) :
              /\ n \in pendingAtScan[r]
              /\ backlogResult[r].error = None =>
                    n \in ScanRows(r) /\ Cardinality(Submissions(r, n)) = 2
              /\ backlogResult[r].error # None => Cardinality(Submissions(r, n)) \in {1, 2}
        /\ \A n \in 1..Len(store) : Cardinality(Submissions(r, n)) <= 2

\* a daily run failed to save the summary of the row it inserted, and its
\* backlog pass submitted the row again and summarized it
C34_Witness ==
    \E r \in Runs :
        /\ BacklogReturned(r)
        /\ backlogResult[r].error = None
        /\ \E n \in IngestedPending(r) :
              /\ Cardinality(Submissions(r, n)) = 2
              /\ WithSummary(store[n])
        /\ EventsWith(r, "update", "false") # {}

\* a daily run summarized the row it inserted and its backlog pass scanned
\* other pending rows
C34_WitnessWhole ==
    \E r \in Runs :
        /\ BacklogReturned(r)
        /\ IngestedWhole(r) # {}
        /\ ScanRows(r) # {}

\* the events ev of run r that are about link
EventsOn(r, ev, link) == {i \in Events(r, ev) : trace[r][i].link = link}

\* an ingestion pass of run r has returned, right after a pass that parsed a
\* usable feed and left the link of its newest entry out of the store
AfterUnstoredPass(r) ==
    /\ Returned(r)
    /\ alone[r]
    /\ lastPass.valid
    /\ ~lastPass.feed.bozo /\ lastPass.feed.entries # <<>>
    /\ ~lastPass.stored
    /\ ~feedSeen[r].bozo /\ feedSeen[r].entries # <<>>

\* C37: a failed extraction changes nothing in the store, so the next
\* ingestion pass that finds the same newest entry checks and extracts its
\* link again, and inserts the Article when the extraction succeeds; when the
\* newest entry has changed, the entry that was not extracted successfully
\* is not ingested: a pass only ever inserts the newest entry of its feed.
C37_FailedExtractionIsRetried ==
    /\ [](\A r \in Runs : AfterUnstoredPass(r) =>
            LET old == Head(lastPass.feed.entries)
                new == Head(feedSeen[r].entries)
            IN IF old = new
               THEN /\ EventsOn(r, "exists", old) \cap EventsWith(r, "exists", "not_found") # {}
                    /\ EventsOn(r, "extract", old) # {}
                    /\ EventsWith(r, "extract", "ok") # {} =>
                          /\ article_exists(store, old)
                          /\ Cardinality(inserted[r]) = 1
                    /\ EventsWith(r, "extract", "fail") # {} =>
                          /\ ~article_exists(store, old)
                          /\ ingestResult[r] = NoNewArticles
               ELSE /\ ~article_exists(store, old)
                    /\ EventsOn(r, "exists", old) \cup EventsOn(r, "extract", old) = {})
    /\ [][/\ \A r \in Runs :
               (pc[r] = "extract" /\ pc'[r] # "extract" /\ pc'[r] # "save") => store' = store
          /\ Len(store') > Len(store) =>
               \E r \in Runs :
                   /\ pc[r] = "save"
                   /\ EventsOn(r, "extract", Head(feedSeen[r].entries))
                         \cap EventsWith(r, "extract", "ok") # {}
                   /\ store'[Len(store')].article_link = Head(feedSeen[r].entries)]_vars

\* the extraction of the newest entry failed in one pass and succeeded in the
\* next one, which inserted the Article
C37_Witness ==
    \E r \in Runs :
        /\ AfterUnstoredPass(r)
        /\ lastPass.status = "no_new_articles"
        /\ Head(lastPass.feed.entries) = Head(feedSeen[r].entries)
        /\ EventsWith(r, "extract", "ok") # {}
        /\ article_exists(store, Head(feedSeen[r].entries))

\* the extraction of the newest entry failed, then the feed got a new entry
\* and the next pass ingested that one
C37_WitnessSkipped ==
    \E r \in Runs :
        /\ AfterUnstoredPass(r)
        /\ Head(lastPass.feed.entries) # Head(feedSeen[r].entries)
        /\ Len(feedSeen[r].entries) > 1
        /\ feedSeen[r].entries[2] = Head(lastPass.feed.entries)
        /\ Cardinality(inserted[r]) = 1

NoArticlesLine == "BACKLOG: No articles requiring summary processing"

NoArticlesLog == "No articles in backlog requiring processing"

\* the daily run r returned a success report
Reported(r) ==
    /\ op[r] = "daily"
    /\ pc[r] \in {"report_ret", "exited"}
    /\ report[r].status = "success"

\* C35 as stated: the backlog line of the summary and of the log says that no
\* articles required processing exactly when processed_count is 0, and the
\* counts appear only when processed_count > 0.
C35_NoArticlesIffNoneProcessed ==
    \A r \in Runs : Reported(r) =>
        LET res == report[r].backlog_processing IN
          /\ report[r].summary.text = NoArticlesLine <=> res.processed_count = 0
          /\ BacklogLog(res).text = NoArticlesLog <=> res.processed_count = 0
          /\ report[r].summary.processed # -1 => res.processed_count > 0

\* C35 amended: a backlog result that carries an error has processed_count 0
\* too, and its line is the error line.  The line says that no articles
\* required processing exactly when the result carries no error and
\* processed_count is 0, whatever total_articles is (a pass in which all
\* N > 0 rows failed reads like an empty backlog); the counts appear exactly
\* when there is no error and processed_count > 0.
C35_NoArticlesIffCountedNone ==
    \A r \in Runs : Reported(r) =>
        LET res == report[r].backlog_processing
            line == report[r].summary
            logged == BacklogLog(res)
        IN /\ line.text = NoArticlesLine <=> (res.error = None /\ res.processed_count = 0)
           /\ logged.text = NoArticlesLog <=> (res.error = None /\ res.processed_count = 0)
           /\ (res.error = None /\ res.processed_count = 0) =>
                 line = BacklogLine(Counted(0, 0)) /\ logged = BacklogLog(Counted(0, 0))
           /\ line.processed # -1 <=> (res.error = None /\ res.processed_count > 0)
           /\ line.processed # -1 =>
                 /\ line.processed = res.processed_count /\ line.total = res.total_articles
                 /\ logged.processed = res.processed_count /\ logged.total = res.total_articles
           /\ res.error # None =>
                 /\ res.processed_count = 0
                 /\ line.text = "BACKLOG ERROR"
                 /\ logged.text = "Error processing backlog"

\* a pass scanned pending rows and summarized none of them: the report reads
\* like the report of an empty backlog
C35_Witness ==
    \E r \in Runs :
        /\ Reported(r)
        /\ report[r].backlog_processing.error = None
        /\ report[r].backlog_processing.processed_count = 0
        /\ report[r].backlog_processing.total_articles > 0
        /\ report[r].summary.text = NoArticlesLine

\* everything but the answers of the query surface
core == <<store, feed, pc, op, locals, ingestResult, backlogResult, ghosts, opsStarted, env,
          coord, scheduler, calls>>

\* C31: get_all_articles returns at most limit Articles, each with a
\* non-empty summary and none of them pending in the store; neither it nor
\* get_article_stats changes the store (or anything else of the core); the
\* counts get_article_stats returns satisfy
\* total_articles = articles_with_summary + articles_without_summary.
C31_QueriesReadOnlyAndComplete ==
    /\ [](/\ shown.limit # -1 => Len(shown.articles) <= shown.limit
          /\ \A i \in 1..Len(shown.articles) :
                /\ shown.articles[i].summary \notin {None, ""}
                /\ WithSummary(store[shown.articles[i].id])
          /\ stats.at = "returned" =>
                stats.total_articles
                    = stats.articles_with_summary + stats.articles_without_summary)
    /\ [][(shown' # shown \/ stats' # stats) => UNCHANGED core]_vars

\* the table holds two complete rows and a pending one: a call with limit 1
\* returned one Article, and the counts show the pending row
C31_Witness ==
    /\ shown.limit = 1
    /\ Len(shown.articles) = 1
    /\ CountWithSummary(store) >= 2
    /\ \E i \in 1..Len(store) : WithoutSummary(store[i])
    /\ stats.at = "returned"
    /\ stats.articles_with_summary >= 2
    /\ stats.articles_without_summary >= 1
====
